---- MODULE Spec2Model ----
(***************************************************************************)
(* Model of the meduza redis driver (driver/redis): tables, primary and    *)
(* compound secondary indexes, the change-set pipeline and the table       *)
(* operations Put / Get / Update / Delete, over a model of the redis       *)
(* keyspace (row hashes and lexicographically sorted index sets).          *)
(*                                                                         *)
(* Byte strings (ids, text values, index entries, range bounds) are        *)
(* sequences of byte codes, so that redis' byte-wise lexicographic order   *)
(* and the separators '|' and '::' are represented exactly.  Property      *)
(* names are strings.                                                      *)
(***************************************************************************)
EXTENDS Integers, Sequences, FiniteSets, TLC

(***************************************************************************)
(* Bounds of the model                                                     *)
(***************************************************************************)
MaxOps == 3

\* the total of a Delete whose chunk loop never ends is counted up to
\* MaxTotal, which no Delete that ends reaches
MaxTotal == 8

(***************************************************************************)
(* Byte codes                                                              *)
(***************************************************************************)
PIPE == 124

COLON == 58

HIGH == 255

TextPrefix == 120

NilPrefix == 78

IntPrefix == 105

UintPrefix == 117

FloatPrefix == 102

BoolPrefix == 98

TimestampPrefix == 116

BinaryPrefix == 114

CompressedTextPrefix == 122

CompressedTextPrefixSnappy == 90

SetPrefix == 115

ListPrefix == 108

MapPrefix == 109

(***************************************************************************)
(* Byte-string helpers                                                     *)
(***************************************************************************)
Min(a, b) == IF a < b THEN a ELSE b

Max(a, b) == IF a < b THEN b ELSE a

Elems(s) == {s[i] : i \in DOMAIN s}

IsPrefix(p, s) ==
    /\ Len(p) <= Len(s)
    /\ \A i \in 1..Len(p) : p[i] = s[i]

\* byte-wise lexicographic order, the order of a redis sorted set whose
\* members all have score 0
LexLess(s, t) ==
    \E i \in 1..(Min(Len(s), Len(t)) + 1) :
        /\ \A j \in 1..(i - 1) : s[j] = t[j]
        /\ \/ i > Len(s) /\ i <= Len(t)
           \/ i <= Len(s) /\ i <= Len(t) /\ s[i] < t[i]

LexLeq(s, t) == s = t \/ LexLess(s, t)

\* the element of a one-element set
The(S) == CHOOSE x \in S : TRUE

\* the members of S in ascending order: a member stands at the place given
\* by the number of members below it
SortLex(S) ==
    The({ <<>> \o [i \in 1..Cardinality(S) |->
                      (CHOOSE p \in ranks : p[2] = i - 1)[1]]
          : ranks \in {{<<x, Cardinality({y \in S : LexLess(y, x)})>> : x \in S}} })

Reverse(s) == <<>> \o [i \in 1..Len(s) |-> s[Len(s) + 1 - i]]

\* s[from+1 .. from+count], clipped to the sequence (redis LIMIT / ZRANGE)
Slice(s, from, count) ==
    LET lo == from + 1
        hi == Min(Len(s), from + count)
    IN  IF lo > hi THEN <<>> ELSE <<>> \o [i \in 1..(hi - lo + 1) |-> s[lo + i - 1]]

RECURSIVE Flatten(_)
Flatten(ss) ==
    IF ss = <<>> THEN <<>>
    ELSE IF Len(ss) = 1 THEN ss[1]
    ELSE The({ Flatten(SubSeq(ss, 1, h)) \o Flatten(SubSeq(ss, h + 1, Len(ss)))
               : h \in {Len(ss) \div 2} })

Contains(l, p) == \E i \in DOMAIN l : l[i] = p

\* the map without keys
EmptyMap == [x \in {} |-> 0]

(***************************************************************************)
(* Values.  A property value is nil, a Text, an Int, a Uint, a Float, a    *)
(* Bool, a Binary, a Timestamp, a Set, a List or a Map; a prepared         *)
(* (index-ready) value is nil, a Go string or a []byte.  An Int or Uint of *)
(* at most nine digits is carried as a number and a longer one as its      *)
(* digits.  A Float is carried as the decimal its float64 is, with six     *)
(* decimals or more, or as "+Inf", "-Inf" or "NaN".  A Set, List or Map is *)
(* carried as its BSON document.                                           *)
(***************************************************************************)
Nil == [type |-> "nil", val |-> <<>>]

Text(b) == [type |-> "Text", val |-> b]

Str(b) == [type |-> "string", val |-> b]

\* a []byte as a prepared value
ByteSlice(b) == [type |-> "bytes", val |-> b]

\* the decimal digits of n >= 0
RECURSIVE Decimal(_)
Decimal(n) == IF n < 10 THEN <<48 + n>> ELSE Append(Decimal(n \div 10), 48 + (n % 10))

\* fmt.Sprintf("%d", n)
Sprintd(n) == IF n < 0 THEN <<45>> \o Decimal(-n) ELSE Decimal(n)

\* the decimal digits of n >= 0, padded with zeros to k digits
RECURSIVE Padded(_, _)
Padded(n, k) == IF k = 0 THEN <<>> ELSE Append(Padded(n \div 10, k - 1), 48 + (n % 10))

(***************************************************************************)
(* Arithmetic on strings of decimal digits (digit values 0..9) and of bits *)
(***************************************************************************)
DigitVals(s) == <<>> \o [i \in DOMAIN s |-> s[i] - 48]

DigitBytes(ds) == <<>> \o [i \in DOMAIN ds |-> ds[i] + 48]

IsDigits(s) == \A i \in DOMAIN s : s[i] \in 48..57

AllZero(ds) == \A i \in DOMAIN ds : ds[i] = 0

\* ds without its leading zeros
StripZeros(ds) ==
    IF AllZero(ds) THEN <<>>
    ELSE SubSeq(ds, CHOOSE i \in DOMAIN ds : ds[i] # 0 /\ \A j \in 1..(i - 1) : ds[j] = 0,
                Len(ds))

\* ds without its trailing zeros
StripTrailingZeros(ds) ==
    IF AllZero(ds) THEN <<>>
    ELSE SubSeq(ds, 1, CHOOSE i \in DOMAIN ds :
                          ds[i] # 0 /\ \A j \in (i + 1)..Len(ds) : ds[j] = 0)

\* the value of a short string of digit values
DigitsValue(ds) ==
    LET V[i \in 0..Len(ds)] == IF i = 0 THEN 0 ELSE V[i - 1] * 10 + ds[i]
    IN  V[Len(ds)]

\* a <= b for digit strings without leading zeros
DigitsLeq(a, b) ==
    \/ Len(a) < Len(b)
    \/ Len(a) = Len(b) /\ LexLeq(a, b)

\* The arithmetic goes by blocks of four digits and chunks of sixteen bits,
\* which keeps every number it computes with below 2^31.
Chunk(k) == Min(16, k)

\* ds * m + a for m and a up to 2^16: the digits of the product that stand
\* at the places of ds, and the number carried out of them
RECURSIVE MulAddCarry(_, _, _)
MulAddCarry(ds, m, a) ==
    IF Len(ds) <= 4
    THEN The({ [d |-> DigitVals(Padded(v % 10^Len(ds), Len(ds))), c |-> v \div 10^Len(ds)]
               : v \in {DigitsValue(ds) * m + a} })
    ELSE The({ The({ [d |-> l.d \o r.d, c |-> l.c]
                     : l \in {MulAddCarry(SubSeq(ds, 1, Len(ds) \div 2), m, r.c)} })
               : r \in {MulAddCarry(SubSeq(ds, Len(ds) \div 2 + 1, Len(ds)), m, a)} })

MulAdd(ds, m, a) ==
    The({ (IF r.c = 0 THEN <<>> ELSE DigitVals(Decimal(r.c))) \o r.d
          : r \in {MulAddCarry(ds, m, a)} })

\* the decimals fs times m: the integer part, a number, and the decimals
\* left
MulFrac(fs, m) ==
    The({ [top |-> r.c, f |-> StripTrailingZeros(r.d)] : r \in {MulAddCarry(fs, m, 0)} })

\* (rin * 10^Len(ds) + ds) \div m and % m for m up to 2^16 and rin < m
RECURSIVE DivRem(_, _, _)
DivRem(ds, m, rin) ==
    IF Len(ds) <= 4
    THEN The({ [q |-> DigitVals(Padded(v \div m, Len(ds))), r |-> v % m]
               : v \in {rin * 10^Len(ds) + DigitsValue(ds)} })
    ELSE The({ The({ [q |-> l.q \o r.q, r |-> r.r]
                     : r \in {DivRem(SubSeq(ds, Len(ds) \div 2 + 1, Len(ds)), m, l.r)} })
               : l \in {DivRem(SubSeq(ds, 1, Len(ds) \div 2), m, rin)} })

DivSmall(ds, m) == DivRem(ds, m, 0)

\* the k bits of the number n, the highest first
NBits(n, k) == <<>> \o [i \in 1..k |-> (n \div 2^(k - i)) % 2]

\* the number of the bits bs, and the number of bits of n >= 1
BitsValue(bs) ==
    LET V[i \in 0..Len(bs)] == IF i = 0 THEN 0 ELSE V[i - 1] * 2 + bs[i]
    IN  V[Len(bs)]

BitLen(n) == CHOOSE l \in 1..16 : 2^(l - 1) <= n /\ n < 2^l

\* the bits of the integer ds, the highest first
RECURSIVE BinaryOf(_)
BinaryOf(ds) ==
    IF AllZero(ds) THEN <<>>
    ELSE The({ The({ IF q = <<>> THEN NBits(h.r, BitLen(h.r))
                     ELSE BinaryOf(q) \o NBits(h.r, 16)
                     : q \in {StripZeros(h.q)} })
               : h \in {DivSmall(ds, 2^16)} })

\* the integer of the bits bs, as digits
RECURSIVE BitsToDigits(_)
BitsToDigits(bs) ==
    IF Len(bs) <= 16 THEN StripZeros(DigitVals(Decimal(BitsValue(bs))))
    ELSE StripZeros(MulAdd(BitsToDigits(SubSeq(bs, 1, Len(bs) - 16)), 2^16,
                           BitsValue(SubSeq(bs, Len(bs) - 15, Len(bs)))))

\* the first k bits of the fraction fs and the fraction left after them
RECURSIVE FractionBits(_, _)
FractionBits(fs, k) ==
    IF k = 0 THEN [bits |-> <<>>, rest |-> fs]
    ELSE The({ The({ The({ [bits |-> NBits(p.top, c) \o r.bits, rest |-> r.rest]
                           : r \in {FractionBits(p.f, k - c)} })
                     : p \in {MulFrac(fs, 2^c)} })
               : c \in {Chunk(k)} })

\* the number of zero bits the fraction fs starts with, counted from n and
\* up to cap, and the fraction left after them
RECURSIVE LeadingZeroBits(_, _, _)
LeadingZeroBits(fs, n, cap) ==
    IF n = cap THEN [zeros |-> n, rest |-> fs]
    ELSE The({ The({ IF p.top = 0 THEN LeadingZeroBits(p.f, n + c, cap)
                     ELSE [zeros |-> n + c - BitLen(p.top),
                           rest |-> MulFrac(fs, 2^(c - BitLen(p.top))).f]
                     : p \in {MulFrac(fs, 2^c)} })
               : c \in {Chunk(cap - n)} })

\* int.frac times 2^k
RECURSIVE ScaleBinary(_, _, _)
ScaleBinary(int, frac, k) ==
    IF k = 0 THEN [int |-> int, frac |-> frac]
    ELSE IF k > 0
    THEN The({ The({ ScaleBinary(StripZeros(MulAdd(int, 2^c, p.top)), p.f, k - c)
                     : p \in {MulFrac(frac, 2^c)} })
               : c \in {Chunk(k)} })
    ELSE The({ The({ ScaleBinary(StripZeros(SubSeq(q, 1, Len(int))),
                                 StripTrailingZeros(SubSeq(q, Len(int) + 1, Len(q))),
                                 k + c)
                     : q \in {DivSmall(int \o frac \o [i \in 1..c |-> 0], 2^c).q} })
               : c \in {Chunk(0 - k)} })

\* the bits bs plus one, in as many bits
IncrementBits(bs) ==
    <<>> \o [i \in DOMAIN bs |->
               IF \A j \in (i + 1)..Len(bs) : bs[j] = 1 THEN 1 - bs[i] ELSE bs[i]]

\* the hex digits (values 0..15) of a string of bits
HexOf(bs) ==
    <<>> \o [i \in 1..(Len(bs) \div 4) |->
               8 * bs[4 * i - 3] + 4 * bs[4 * i - 2] + 2 * bs[4 * i - 1] + bs[4 * i]]

(***************************************************************************)
(* float64                                                                 *)
(***************************************************************************)
\* the float64 nearest to the decimal int.frac (digit values), ties to the
\* even fraction: its 63 bits after the sign
RoundToFloat64(int, frac) ==
    LET finish(biased, s, sticky) ==
            \* s: the 52 bits of the fraction and the bit after them
            LET field == NBits(biased, 11) \o SubSeq(s, 1, 52)
            IN  IF s[53] = 1 /\ (sticky \/ s[52] = 1) THEN IncrementBits(field) ELSE field
        inf == NBits(2047, 11) \o [i \in 1..52 |-> 0]
    IN  IF ~AllZero(int)
        THEN The({ IF Len(ib) > 1024 THEN inf
                   ELSE IF Len(ib) >= 54
                   THEN finish(Len(ib) + 1022, SubSeq(ib, 2, 54),
                               ~AllZero(SubSeq(ib, 55, Len(ib))) \/ ~AllZero(frac))
                   ELSE The({ finish(Len(ib) + 1022, Tail(ib) \o fb.bits,
                                     ~AllZero(fb.rest))
                              : fb \in {FractionBits(frac, 54 - Len(ib))} })
                   : ib \in {BinaryOf(StripZeros(int))} })
        ELSE IF AllZero(frac) THEN [i \in 1..63 |-> 0]
        ELSE The({ IF lz.zeros = 1022
                   THEN \* below the normal numbers: no leading one bit
                        The({ finish(0, fb.bits, ~AllZero(fb.rest))
                              : fb \in {FractionBits(lz.rest, 53)} })
                   ELSE The({ finish(1022 - lz.zeros, Tail(fb.bits), ~AllZero(fb.rest))
                              : fb \in {FractionBits(lz.rest, 54)} })
                   : lz \in {LeadingZeroBits(StripTrailingZeros(frac), 0, 1022)} })

\* the decimal [int, frac] that the float64 of these 63 bits is
ExactDecimal(bits) ==
    The({ ScaleBinary(BitsToDigits((IF e = 0 THEN <<0>> ELSE <<1>>) \o SubSeq(bits, 12, 63)),
                      <<>>, (IF e = 0 THEN 1 ELSE e) - 1075)
          : e \in {BitsValue(SubSeq(bits, 1, 11))} })

\* the Floats that are no numbers
PosInf == [type |-> "Float", val |-> <<43, 73, 110, 102>>]

NegInf == [type |-> "Float", val |-> <<45, 73, 110, 102>>]

NaN == [type |-> "Float", val |-> <<78, 97, 78>>]

\* the Float of sign neg and decimal int.frac: the integer part without
\* leading zeros, and six decimals or more
FloatOf(neg, int, frac) ==
    [type |-> "Float",
     val |-> (IF neg THEN <<45>> ELSE <<>>)
             \o DigitBytes(IF int = <<>> THEN <<0>> ELSE int)
             \o <<46>>
             \o DigitBytes(frac \o [k \in 1..(6 - Len(frac)) |-> 0])]

\* the float64 nearest to the decimal int.frac (digit values) of sign neg.
\* An integer of 15 digits or less is a float64.
MakeFloat(neg, int, frac) ==
    IF AllZero(frac) /\ Len(StripZeros(int)) <= 15 THEN FloatOf(neg, StripZeros(int), <<>>)
    ELSE The({ IF \A i \in 1..11 : b[i] = 1 THEN (IF neg THEN NegInf ELSE PosInf)
               ELSE The({ FloatOf(neg, d.int, d.frac) : d \in {ExactDecimal(b)} })
               : b \in {RoundToFloat64(StripZeros(int), frac)} })

\* the Float of integer value k
FloatV(k) == MakeFloat(k < 0, DigitVals(Decimal(IF k < 0 THEN -k ELSE k)), <<>>)

\* the Float nearest to n units of 10^-7
FloatE7(n) ==
    The({ MakeFloat(n < 0, DigitVals(Decimal(a \div 10000000)),
                    DigitVals(Padded(a % 10000000, 7)))
          : a \in {IF n < 0 THEN -n ELSE n} })

\* the parts of a Float that is a number: [neg, int, frac]
FloatParts(s) ==
    LET neg == s[1] = 45
        d == IF neg THEN Tail(s) ELSE s
        dot == CHOOSE i \in DOMAIN d : d[i] = 46
    IN  [neg |-> neg, int |-> StripZeros(DigitVals(SubSeq(d, 1, dot - 1))),
         frac |-> DigitVals(SubSeq(d, dot + 1, Len(d)))]

\* math.Float64bits of the Float carried as s, as 16 hex digits: the sign
\* bit, the 11 bits of the exponent and the 52 bits of the fraction
Float64bits(s) ==
    IF s = PosInf.val THEN <<7, 15, 15>> \o [i \in 1..13 |-> 0]
    ELSE IF s = NegInf.val THEN <<15, 15, 15>> \o [i \in 1..13 |-> 0]
    ELSE IF s = NaN.val THEN <<7, 15, 15, 8>> \o [i \in 1..11 |-> 0] \o <<1>>
    ELSE The({ HexOf(<<IF p.neg THEN 1 ELSE 0>> \o RoundToFloat64(p.int, p.frac))
               : p \in {FloatParts(s)} })


\* a Float given by its hex digits is ordered by prepareValue through all
\* its bits inverted when the sign bit is set, and the sign bit set otherwise
FloatOrderBits(h) ==
    IF h[1] >= 8 THEN [i \in DOMAIN h |-> 15 - h[i]]
    ELSE [h EXCEPT ![1] = @ + 8]

\* the digits ds plus one
IncrementDecimal(ds) ==
    IF \A i \in DOMAIN ds : ds[i] = 9 THEN <<1>> \o [i \in DOMAIN ds |-> 0]
    ELSE [i \in DOMAIN ds |->
            IF \A j \in (i + 1)..Len(ds) : ds[j] = 9 THEN (ds[i] + 1) % 10 ELSE ds[i]]

\* Encoder.encodeFloat, fmt.Sprintf("%f", f): six decimals, rounded to the
\* nearest and a tie to the even digit
encodeFloat(s) ==
    IF s \in {PosInf.val, NegInf.val, NaN.val} THEN s
    ELSE The({ IF Len(p.frac) <= 6 THEN s
               ELSE LET kept == p.int \o SubSeq(p.frac, 1, 6)
                        tail == SubSeq(p.frac, 7, Len(p.frac))
                        half == <<5>> \o [i \in 1..(Len(tail) - 1) |-> 0]
                        up == IF tail = half THEN p.frac[6] % 2 = 1
                              ELSE LexLess(half, tail)
                        r == IF up THEN IncrementDecimal(kept) ELSE kept
                    IN  (IF p.neg THEN <<45>> ELSE <<>>)
                        \o DigitBytes(IF Len(r) = 6 THEN <<0>>
                                      ELSE SubSeq(r, 1, Len(r) - 6))
                        \o <<46>>
                        \o DigitBytes(SubSeq(r, Len(r) - 5, Len(r)))
               : p \in {FloatParts(s)} })

Bool(b) == [type |-> "Bool", val |-> b]

Binary(b) == [type |-> "Binary", val |-> b]

\* the seconds of a time after the epoch: sign and digits (digit values, no
\* leading zeros)
Seconds(neg, ds) == [neg |-> neg /\ ds # <<>>, digits |-> ds]

\* a schema.Timestamp: the zero time.Time, or sec seconds and nsec
\* nanoseconds after the epoch
Timestamp(zero, sec, nsec) ==
    [type |-> "Timestamp",
     val |-> [zero |-> zero,
              sec |-> Seconds(sec < 0,
                              StripZeros(DigitVals(Decimal(IF sec < 0 THEN 0 - sec ELSE sec)))),
              nsec |-> nsec]]

\* the digits of the seconds from the zero time.Time to the epoch
UnixToInternalDigits == <<6, 2, 1, 3, 5, 5, 9, 6, 8, 0, 0>>

\* time.Unix(sec, 0) for the seconds of sign neg and digits ds; the
\* seconds of the zero time give the zero time
Unix(neg, ds) ==
    IF neg /\ ds = UnixToInternalDigits THEN Timestamp(TRUE, 0, 0)
    ELSE [type |-> "Timestamp",
          val |-> [zero |-> FALSE, sec |-> Seconds(neg, ds), nsec |-> 0]]

\* a schema.Set, schema.List or schema.Map of the BSON document doc
SetOf(doc) == [type |-> "Set", val |-> doc]

ListOf(doc) == [type |-> "List", val |-> doc]

MapOf(doc) == [type |-> "Map", val |-> doc]

\* the integer of sign neg and digits ds (digit values, no leading zeros): a
\* number up to nine digits, sign and digits beyond
IntOf(type, neg, ds) ==
    IF Len(ds) <= 9
    THEN [type |-> type, val |-> IF neg THEN 0 - DigitsValue(ds) ELSE DigitsValue(ds)]
    ELSE [type |-> type, big |-> [neg |-> neg, digits |-> ds]]

\* schema.Int and schema.Uint of value n
IntV(n) == IntOf("Int", n < 0, StripZeros(DigitVals(Decimal(IF n < 0 THEN 0 - n ELSE n))))

UintV(n) == IntOf("Uint", FALSE, StripZeros(DigitVals(Decimal(n))))

IsBig(v) == "big" \in DOMAIN v

\* Encoder.encodeInt / Encoder.encodeUint
encodeInt(v) ==
    IF IsBig(v) THEN (IF v.big.neg THEN <<45>> ELSE <<>>) \o DigitBytes(v.big.digits)
    ELSE Sprintd(v.val)

\* Encoder.encodeTimestamp: nothing for the zero time, else the seconds
encodeTimestamp(t) ==
    IF t.zero THEN <<>>
    ELSE <<TimestampPrefix>> \o (IF t.sec.neg THEN <<45>> ELSE <<>>)
         \o (IF t.sec.digits = <<>> THEN <<48>> ELSE DigitBytes(t.sec.digits))

\* Encoder.Encode: nil is the nil prefix, a Text (below the compression
\* threshold) its bytes after the text prefix, an Int or Uint its decimal
\* digits and a Float its "%f" rendering, the numbers without a prefix
Encode(v) ==
    IF v.type = "nil" THEN <<NilPrefix>>
    ELSE IF v.type = "Float" THEN encodeFloat(v.val)
    ELSE IF v.type \in {"Int", "Uint"} THEN encodeInt(v)
    ELSE IF v.type = "Bool" THEN <<BoolPrefix, IF v.val THEN 49 ELSE 48>>
    ELSE IF v.type = "Binary" THEN <<BinaryPrefix>> \o v.val
    ELSE IF v.type = "Timestamp" THEN encodeTimestamp(v.val)
    ELSE IF v.type = "Set" THEN <<SetPrefix>> \o v.val
    ELSE IF v.type = "List" THEN <<ListPrefix>> \o v.val
    ELSE IF v.type = "Map" THEN <<MapPrefix>> \o v.val
    ELSE <<TextPrefix>> \o v.val

(***************************************************************************)
(* strconv                                                                 *)
(***************************************************************************)
\* ASCII lower case
ToLower(c) == IF c >= 65 /\ c <= 90 THEN c + 32 ELSE c

LowerASCII(s) == [i \in DOMAIN s |-> ToLower(s[i])]

\* the digits of math.MaxInt64, of -math.MinInt64 and of math.MaxUint64
MaxInt64Digits == <<9, 2, 2, 3, 3, 7, 2, 0, 3, 6, 8, 5, 4, 7, 7, 5, 8, 0, 7>>

MinInt64Digits == <<9, 2, 2, 3, 3, 7, 2, 0, 3, 6, 8, 5, 4, 7, 7, 5, 8, 0, 8>>

MaxUint64Digits == <<1, 8, 4, 4, 6, 7, 4, 4, 0, 7, 3, 7, 0, 9, 5, 5, 1, 6, 1, 5>>

\* strconv.ParseInt(s, 10, 64): [err, val]; an optional sign and digits, in
\* the range of int64; the value is 0 when the syntax is wrong and the
\* nearest bound when the number is out of range
ParseInt(s) ==
    LET signed == Len(s) > 0 /\ s[1] \in {43, 45}
        neg == Len(s) > 0 /\ s[1] = 45
        d == IF signed THEN Tail(s) ELSE s
        ds == StripZeros(DigitVals(d))
        bound == IF neg THEN MinInt64Digits ELSE MaxInt64Digits
    IN  IF Len(d) = 0 \/ ~IsDigits(d) THEN [err |-> TRUE, val |-> IntV(0)]
        ELSE IF ~DigitsLeq(ds, bound) THEN [err |-> TRUE, val |-> IntOf("Int", neg, bound)]
        ELSE [err |-> FALSE, val |-> IntOf("Int", neg, ds)]

\* strconv.ParseUint(s, 10, 64): [err, val]; digits without a sign
ParseUint(s) ==
    LET ds == StripZeros(DigitVals(s))
    IN  IF Len(s) = 0 \/ ~IsDigits(s) THEN [err |-> TRUE, val |-> UintV(0)]
        ELSE IF ~DigitsLeq(ds, MaxUint64Digits)
             THEN [err |-> TRUE, val |-> IntOf("Uint", FALSE, MaxUint64Digits)]
        ELSE [err |-> FALSE, val |-> IntOf("Uint", FALSE, ds)]

\* strconv's underscoreOK: the underscores of s stand between digits, or
\* between a base prefix and a digit
underscoreOK(s) ==
    LET t == IF Len(s) >= 1 /\ s[1] \in {43, 45} THEN Tail(s) ELSE s
        prefixed == Len(t) >= 2 /\ t[1] = 48 /\ ToLower(t[2]) \in {98, 111, 120}
        hex == prefixed /\ ToLower(t[2]) = 120
        body == IF prefixed THEN SubSeq(t, 3, Len(t)) ELSE t
        digit(c) == c \in 48..57 \/ (hex /\ ToLower(c) \in 97..102)
        \* what stands at byte i: "0" a digit (or, at 0, the prefix), "_" an
        \* underscore, "!" anything else, "^" nothing
        saw(i) == IF i = 0 THEN (IF prefixed THEN "0" ELSE "^")
                  ELSE IF digit(body[i]) THEN "0"
                  ELSE IF body[i] = 95 THEN "_" ELSE "!"
    IN  /\ \A i \in DOMAIN body :
              /\ body[i] = 95 => saw(i - 1) = "0"
              /\ (~digit(body[i]) /\ body[i] # 95) => saw(i - 1) # "_"
        /\ saw(Len(body)) # "_"

\* the exponent of a float: [ok, neg, digits]; an optional sign, a digit,
\* then digits and underscores
ParseExponent(e) ==
    LET signed == Len(e) > 0 /\ e[1] \in {43, 45}
        d == IF signed THEN Tail(e) ELSE e
    IN  [ok |-> /\ Len(d) > 0
                /\ d[1] \in 48..57
                /\ \A i \in DOMAIN d : d[i] \in (48..57) \cup {95},
         neg |-> signed /\ e[1] = 45,
         digits |-> StripZeros(DigitVals(SelectSeq(d, LAMBDA c : c \in 48..57)))]


\* the exponent as a number: strconv adds digits while the number is below
\* 10000, which is the first five digits that count
ExponentValue(ex) ==
    The({ IF ex.neg THEN 0 - e ELSE e
          : e \in {DigitsValue(SubSeq(ex.digits, 1, Min(5, Len(ex.digits))))} })

\* the result of strconv.ParseFloat for the decimal int.frac: an error and
\* an infinity when the nearest float64 is out of range
FloatResult(neg, int, frac) ==
    The({ [err |-> f \in {PosInf, NegInf}, val |-> f] : f \in {MakeFloat(neg, int, frac)} })

\* the Float zero of the given sign
FloatZero(neg) == FloatOf(neg, <<>>, <<>>)

\* the digits md with the decimal point after the first `point` of them
ScaleDecimal(neg, md, point) ==
    The({ IF AllZero(md) \/ lead < -330 THEN [err |-> FALSE, val |-> FloatZero(neg)]
          ELSE IF lead > 310 THEN [err |-> TRUE, val |-> IF neg THEN NegInf ELSE PosInf]
          ELSE The({ FloatResult(neg, d[1], d[2])
                     : d \in {IF point <= 0
                              THEN << <<>>, [i \in 1..(0 - point) |-> 0] \o md >>
                              ELSE IF point >= Len(md)
                              THEN << md \o [i \in 1..(point - Len(md)) |-> 0], <<>> >>
                              ELSE << SubSeq(md, 1, point),
                                      SubSeq(md, point + 1, Len(md)) >>} })
          : lead \in {point - (Len(md) - Len(StripZeros(md)))} })

\* the integer of the hex digits hs (values 0..15) as decimal digits
RECURSIVE HexValue(_, _)
HexValue(hs, acc) ==
    IF hs = <<>> THEN acc ELSE HexValue(Tail(hs), StripZeros(MulAdd(acc, 16, hs[1])))

\* the syntax of the argument of strconv.ParseFloat: its sign, its body in
\* lower case, whether it is hexadecimal (0x), whether the syntax is right,
\* the values md of the digits of the mantissa, the number of them before
\* the point, and the exponent
FloatSyntax(s) ==
    LET signed == Len(s) > 0 /\ s[1] \in {43, 45}
        body == IF signed THEN Tail(s) ELSE s
        l == LowerASCII(body)
        isHex == Len(body) >= 3 /\ l[1] = 48 /\ l[2] = 120
        num == IF isHex THEN SubSeq(l, 3, Len(l)) ELSE l
        expChar == IF isHex THEN 112 ELSE 101
        es == {i \in DOMAIN num : num[i] = expChar}
        epos == IF es = {} THEN Len(num) + 1 ELSE CHOOSE i \in es : \A j \in es : i <= j
        mant == SubSeq(num, 1, epos - 1)
        ex == IF es = {} THEN [ok |-> ~isHex, neg |-> FALSE, digits |-> <<>>]
              ELSE ParseExponent(SubSeq(num, epos + 1, Len(num)))
        digit(c) == c \in 48..57 \/ (isHex /\ c \in 97..102)
        dots == {i \in DOMAIN mant : mant[i] = 46}
        ds == SelectSeq(mant, digit)
    IN  [signed |-> signed,
         neg |-> Len(s) > 0 /\ s[1] = 45,
         l |-> l,
         isHex |-> isHex,
         syntax |-> /\ Cardinality(dots) <= 1
                    /\ \A i \in DOMAIN mant : digit(mant[i]) \/ mant[i] \in {46, 95}
                    /\ \E i \in DOMAIN mant : digit(mant[i])
                    /\ ex.ok
                    /\ (\E i \in DOMAIN num : num[i] = 95) => underscoreOK(s),
         md |-> <<>> \o [i \in DOMAIN ds |-> IF ds[i] >= 97 THEN ds[i] - 87 ELSE ds[i] - 48],
         before |-> Cardinality({i \in DOMAIN mant :
                                   digit(mant[i]) /\ \A d \in dots : i < d}),
         exp |-> IF ex.ok THEN ExponentValue(ex) ELSE 0]

\* strconv.ParseFloat(s, 64): [err, val].  The infinities and NaN by name,
\* a decimal mantissa with an optional decimal exponent, or a hexadecimal
\* mantissa after 0x with a binary exponent after p; underscores as
\* underscoreOK allows.  The value is 0 when the syntax is wrong.
ParseFloat(s) ==
    The({ IF p.l \in {<<105, 110, 102>>, <<105, 110, 102, 105, 110, 105, 116, 121>>}
          THEN [err |-> FALSE, val |-> IF p.neg THEN NegInf ELSE PosInf]
          ELSE IF ~p.signed /\ p.l = <<110, 97, 110>> THEN [err |-> FALSE, val |-> NaN]
          ELSE IF ~p.syntax THEN [err |-> TRUE, val |-> FloatZero(FALSE)]
          ELSE IF ~p.isHex THEN ScaleDecimal(p.neg, p.md, p.before + p.exp)
          ELSE The({ The({ IF sig = <<>> THEN [err |-> FALSE, val |-> FloatZero(p.neg)]
                           ELSE IF k + 4 * Len(sig) > 1030
                                THEN [err |-> TRUE,
                                      val |-> IF p.neg THEN NegInf ELSE PosInf]
                           ELSE IF k + 4 * Len(sig) < -1080
                                THEN [err |-> FALSE, val |-> FloatZero(p.neg)]
                           ELSE The({ FloatResult(p.neg, v.int, v.frac)
                                      : v \in {ScaleBinary(HexValue(sig, <<>>), <<>>, k)} })
                           \* readFloat skips the zeros that lead the mantissa
                           : sig \in {StripZeros(p.md)} })
                     : k \in {p.exp - 4 * (Len(p.md) - p.before)} })
          : p \in {FloatSyntax(s)} })

(***************************************************************************)
(* Decoder (convert.go)                                                    *)
(***************************************************************************)
\* Decoder.decodeInt: 0 with the error of strconv.ParseInt
decodeInt(value) ==
    The({ IF p.err THEN [err |-> TRUE, val |-> IntV(0)] ELSE p : p \in {ParseInt(value)} })

\* Decoder.decodeUint
decodeUint(value) ==
    The({ IF p.err THEN [err |-> TRUE, val |-> UintV(0)] ELSE p : p \in {ParseUint(value)} })

\* Decoder.decodeFloat
decodeFloat(value) ==
    The({ IF p.err THEN [err |-> TRUE, val |-> MakeFloat(FALSE, <<>>, <<>>)] ELSE p
          : p \in {ParseFloat(value)} })

\* Decoder.decodeNumber: [err, val]; the data as an Int, else as a Uint,
\* else as a Float; with the error comes the float64 strconv.ParseFloat
\* returned
decodeNumber(num) ==
    The({ IF ~i.err THEN i
          ELSE The({ IF ~u.err THEN u
                     ELSE The({ IF ~f.err THEN f
                                ELSE [err |-> TRUE,
                                      val |-> [type |-> "float64", val |-> f.val.val]]
                                : f \in {ParseFloat(num)} })
                     : u \in {ParseUint(num)} })
          : i \in {ParseInt(num)} })

\* Decoder.decodeBool
decodeBool(value) ==
    The({ IF l \in {<<49>>, <<116, 114, 117, 101>>}
          THEN [err |-> FALSE, val |-> Bool(TRUE)]
          ELSE IF l \in {<<48>>, <<102, 97, 108, 115, 101>>}
          THEN [err |-> FALSE, val |-> Bool(FALSE)]
          ELSE [err |-> TRUE, val |-> Bool(FALSE)]
          : l \in {LowerASCII(value)} })

\* Decoder.decodeTimestamp: time.Unix(i, 0) of the decoded seconds
decodeTimestamp(value) ==
    The({ [err |-> i.err,
           val |-> IF IsBig(i.val) THEN Unix(i.val.big.neg, i.val.big.digits)
                   ELSE Timestamp(FALSE, i.val.val, 0)]
          : i \in {decodeInt(value)} })


\* binary.Uvarint from byte i of src on: [n, v, large]; n is the number of
\* bytes read, 0 when the data end within the number and negative when the
\* number overflows 64 bits; large tells that the number is 2^28 or more,
\* and v is the number when it is not
RECURSIVE Uvarint(_, _, _, _)
Uvarint(src, i, acc, large) ==
    IF i > Len(src) THEN [n |-> 0, v |-> 0, large |-> FALSE]
    ELSE IF i = 11 \/ (i = 10 /\ src[i] < 128 /\ src[i] > 1)
         THEN [n |-> 0 - i, v |-> 0, large |-> TRUE]
    ELSE The({ IF src[i] < 128
               THEN [n |-> i, v |-> IF i > 4 THEN acc ELSE acc + g * 128^(i - 1),
                     large |-> large \/ (i > 4 /\ g # 0)]
               ELSE Uvarint(src, i + 1, IF i > 4 THEN acc ELSE acc + g * 128^(i - 1),
                            large \/ (i > 4 /\ g # 0))
               : g \in {src[i] % 128} })

\* the number of the k bytes of src that end at s, the lowest first; -1 when
\* it is 2^24 or more
LittleEndian(src, s, k) ==
    IF k = 4 /\ src[s] # 0 THEN -1
    ELSE LET V[i \in 0..Min(k, 3)] ==
                 IF i = 0 THEN 0 ELSE V[i - 1] + src[s - k + i] * 256^(i - 1)
         IN  V[Min(k, 3)]

\* snappy's decode of the block src from byte s on into dst of dLen bytes:
\* [err, dst]
RECURSIVE snappyDecode(_, _, _, _)
snappyDecode(src, s, dst, dLen) ==
    IF s > Len(src) THEN [err |-> Len(dst) # dLen, dst |-> dst]
    ELSE LET tag == src[s]
             bad == [err |-> TRUE, dst |-> <<>>]
         IN  IF tag % 4 = 0
             THEN \* a literal: the length in the tag or in the 1 to 4
                  \* bytes after it
                  LET x == tag \div 4
                      extra == IF x < 60 THEN 0 ELSE x - 59
                      from == s + 1 + extra
                      length == IF x < 60 THEN x + 1
                                ELSE IF from - 1 > Len(src) THEN -1
                                ELSE The({ IF v < 0 THEN -1 ELSE v + 1
                                           : v \in {LittleEndian(src, from - 1, extra)} })
                  IN  IF length <= 0 \/ length > dLen - Len(dst)
                         \/ length > Len(src) - (from - 1)
                      THEN bad
                      ELSE snappyDecode(src, from + length,
                                        dst \o SubSeq(src, from, from + length - 1), dLen)
             ELSE \* a copy of length bytes that start offset bytes back
                  LET extra == IF tag % 4 = 1 THEN 1 ELSE IF tag % 4 = 2 THEN 2 ELSE 4
                      next == s + 1 + extra
                      length == IF tag % 4 = 1 THEN 4 + ((tag \div 4) % 8)
                                ELSE 1 + (tag \div 4)
                      offset == IF next - 1 > Len(src) THEN -1
                                ELSE IF tag % 4 = 1
                                THEN (tag \div 32) * 256 + src[s + 1]
                                ELSE LittleEndian(src, next - 1, extra)
                      d == Len(dst)
                  IN  IF offset <= 0 \/ d < offset \/ length > dLen - d THEN bad
                      ELSE LET C[i \in 0..length] ==
                                   IF i = 0 THEN dst
                                   ELSE Append(C[i - 1], C[i - 1][d - offset + i])
                           IN  snappyDecode(src, next, C[length], dLen)

\* snappy.Decode: [err, dst]
SnappyDecode(src) ==
    The({ IF u.n <= 0 \/ u.large THEN [err |-> TRUE, dst |-> <<>>]
          ELSE snappyDecode(src, u.n + 1, <<>>, u.v)
          : u \in {Uvarint(src, 1, 0, FALSE)} })

\* Decoder.decodeCompressedText: [err, val], the empty Text with an error
decodeCompressedText(v) ==
    The({ [err |-> r.err, val |-> Text(IF r.err THEN <<>> ELSE r.dst)]
          : r \in {SnappyDecode(v)} })

\* the reader of compress/lzw with the least significant bit first and
\* literals of 8 bits, read to its end or its first error: the bytes
\* decoded.  st is the decoder: the bits read and not used, the place in
\* the data, the width of a code, the last code of the table, the last code
\* read (-1: none), the table of the codes above 257 and the output.
RECURSIVE lzwDecode(_, _)
lzwDecode(src, st) ==
    LET need == IF st.nBits >= st.width THEN 0
                ELSE (st.width - st.nBits + 7) \div 8
        B[i \in 0..need] ==
            IF i = 0 THEN st.bits
            ELSE B[i - 1] + src[st.pos + i - 1] * 2^(st.nBits + 8 * (i - 1))
    IN  IF st.pos + need - 1 > Len(src) THEN st.out
        ELSE LET code == B[need] % 2^st.width
                 s1 == [st EXCEPT !.bits = B[need] \div 2^st.width,
                                  !.nBits = st.nBits + 8 * need - st.width,
                                  !.pos = st.pos + need]
                 \* the table and the counters after the code whose
                 \* expansion is e
                 step(e) ==
                     LET tbl == IF st.last # -1
                                THEN [c \in DOMAIN st.tbl \cup {st.hi} |->
                                        IF c = st.hi
                                        THEN Append(IF st.last < 256 THEN <<st.last>>
                                                    ELSE st.tbl[st.last], e[1])
                                        ELSE st.tbl[c]]
                                ELSE st.tbl
                         hi == st.hi + 1
                     IN  [s1 EXCEPT !.out = @ \o e, !.tbl = tbl,
                                    !.last = IF hi >= 2^st.width /\ st.width = 12
                                             THEN -1 ELSE code,
                                    !.hi = IF hi >= 2^st.width /\ st.width = 12
                                           THEN hi - 1 ELSE hi,
                                    !.width = IF hi >= 2^st.width /\ st.width < 12
                                              THEN st.width + 1 ELSE st.width]
             IN  IF code < 256 THEN lzwDecode(src, step(<<code>>))
                 ELSE IF code = 256
                      THEN lzwDecode(src, [s1 EXCEPT !.width = 9, !.hi = 257, !.last = -1])
                 ELSE IF code = 257 THEN st.out
                 ELSE IF code = st.hi /\ st.last # -1
                      THEN The({ lzwDecode(src, step(Append(p, p[1])))
                                 : p \in {IF st.last < 256 THEN <<st.last>>
                                          ELSE st.tbl[st.last]} })
                 \* a code up to hi is expanded from the table, hi itself
                 \* too when the table is full and no last code is kept
                 ELSE IF code <= st.hi /\ code \in DOMAIN st.tbl
                      THEN lzwDecode(src, step(st.tbl[code]))
                 ELSE st.out

\* Decoder.decodeCompressedTextLZW: the Text read before the end or the
\* first error of the reader; the error is not returned
decodeCompressedTextLZW(v) ==
    [err |-> FALSE,
     val |-> Text(lzwDecode(v, [bits |-> 0, nBits |-> 0, pos |-> 1, width |-> 9,
                                hi |-> 257, last |-> -1, tbl |-> EmptyMap,
                                out |-> <<>>]))]

\* the reply of redis for a missing value, a nil []byte
NullReply == <<-1>>

\* the outcome r of a call is a panic
Panics(r) == "panic" \in DOMAIN r

\* Decoder.Decode: [err, val].  Data without a known prefix is a number
\* when it starts with a digit or '-', and an error otherwise.  Data that is
\* empty and not nil panics at data[0]: [err, panic, val].
Decode(data) ==
    IF data = NullReply THEN [err |-> FALSE, val |-> Nil]
    ELSE IF data = <<>> THEN [err |-> TRUE, panic |-> TRUE, val |-> Nil]
    ELSE IF data[1] = NilPrefix THEN [err |-> FALSE, val |-> Nil]
    ELSE IF data[1] = IntPrefix THEN decodeInt(Tail(data))
    ELSE IF data[1] = UintPrefix THEN decodeUint(Tail(data))
    ELSE IF data[1] = FloatPrefix THEN decodeFloat(Tail(data))
    ELSE IF data[1] = BoolPrefix THEN decodeBool(Tail(data))
    ELSE IF data[1] = TextPrefix THEN [err |-> FALSE, val |-> Text(Tail(data))]
    ELSE IF data[1] = CompressedTextPrefix THEN decodeCompressedTextLZW(Tail(data))
    ELSE IF data[1] = CompressedTextPrefixSnappy THEN decodeCompressedText(Tail(data))
    ELSE IF data[1] = BinaryPrefix THEN [err |-> FALSE, val |-> Binary(Tail(data))]
    ELSE IF data[1] = TimestampPrefix THEN decodeTimestamp(Tail(data))
    ELSE IF data[1] = SetPrefix THEN [err |-> FALSE, val |-> SetOf(Tail(data))]
    ELSE IF data[1] = ListPrefix THEN [err |-> FALSE, val |-> ListOf(Tail(data))]
    ELSE IF data[1] = MapPrefix THEN [err |-> FALSE, val |-> MapOf(Tail(data))]
    ELSE IF data[1] \in (48..57) \cup {45} THEN decodeNumber(data)
    ELSE [err |-> TRUE, val |-> Nil]


(***************************************************************************)
(* Text normalisation (schema/normalize.go).  The tables of the Unicode    *)
(* character database come first; the decompositions of the Hangul         *)
(* syllables are computed.                                                 *)
(***************************************************************************)
\* unicode.Mn: the ranges of the nonspacing marks
MnRanges ==
    << <<768, 879>>, <<1155, 1159>>, <<1425, 1469>>, <<1471, 1471>>, <<1473, 1474>>, <<1476, 1477>>,
       <<1479, 1479>>, <<1552, 1562>>, <<1611, 1631>>, <<1648, 1648>>, <<1750, 1756>>, <<1759, 1764>>,
       <<1767, 1768>>, <<1770, 1773>>, <<1809, 1809>>, <<1840, 1866>>, <<1958, 1968>>, <<2027, 2035>>,
       <<2045, 2045>>, <<2070, 2073>>, <<2075, 2083>>, <<2085, 2087>>, <<2089, 2093>>, <<2137, 2139>>,
       <<2200, 2207>>, <<2250, 2273>>, <<2275, 2306>>, <<2362, 2362>>, <<2364, 2364>>, <<2369, 2376>>,
       <<2381, 2381>>, <<2385, 2391>>, <<2402, 2403>>, <<2433, 2433>>, <<2492, 2492>>, <<2497, 2500>>,
       <<2509, 2509>>, <<2530, 2531>>, <<2558, 2558>>, <<2561, 2562>>, <<2620, 2620>>, <<2625, 2626>>,
       <<2631, 2632>>, <<2635, 2637>>, <<2641, 2641>>, <<2672, 2673>>, <<2677, 2677>>, <<2689, 2690>>,
       <<2748, 2748>>, <<2753, 2757>>, <<2759, 2760>>, <<2765, 2765>>, <<2786, 2787>>, <<2810, 2815>>,
       <<2817, 2817>>, <<2876, 2876>>, <<2879, 2879>>, <<2881, 2884>>, <<2893, 2893>>, <<2901, 2902>>,
       <<2914, 2915>>, <<2946, 2946>>, <<3008, 3008>>, <<3021, 3021>>, <<3072, 3072>>, <<3076, 3076>>,
       <<3132, 3132>>, <<3134, 3136>>, <<3142, 3144>>, <<3146, 3149>>, <<3157, 3158>>, <<3170, 3171>>,
       <<3201, 3201>>, <<3260, 3260>>, <<3263, 3263>>, <<3270, 3270>>, <<3276, 3277>>, <<3298, 3299>>,
       <<3328, 3329>>, <<3387, 3388>>, <<3393, 3396>>, <<3405, 3405>>, <<3426, 3427>>, <<3457, 3457>>,
       <<3530, 3530>>, <<3538, 3540>>, <<3542, 3542>>, <<3633, 3633>>, <<3636, 3642>>, <<3655, 3662>>,
       <<3761, 3761>>, <<3764, 3772>>, <<3784, 3789>>, <<3864, 3865>>, <<3893, 3893>>, <<3895, 3895>>,
       <<3897, 3897>>, <<3953, 3966>>, <<3968, 3972>>, <<3974, 3975>>, <<3981, 3991>>, <<3993, 4028>>,
       <<4038, 4038>>, <<4141, 4144>>, <<4146, 4151>>, <<4153, 4154>>, <<4157, 4158>>, <<4184, 4185>>,
       <<4190, 4192>>, <<4209, 4212>>, <<4226, 4226>>, <<4229, 4230>>, <<4237, 4237>>, <<4253, 4253>>,
       <<4957, 4959>>, <<5906, 5908>>, <<5938, 5939>>, <<5970, 5971>>, <<6002, 6003>>, <<6068, 6069>>,
       <<6071, 6077>>, <<6086, 6086>>, <<6089, 6099>>, <<6109, 6109>>, <<6155, 6157>>, <<6159, 6159>>,
       <<6277, 6278>>, <<6313, 6313>>, <<6432, 6434>>, <<6439, 6440>>, <<6450, 6450>>, <<6457, 6459>>,
       <<6679, 6680>>, <<6683, 6683>>, <<6742, 6742>>, <<6744, 6750>>, <<6752, 6752>>, <<6754, 6754>>,
       <<6757, 6764>>, <<6771, 6780>>, <<6783, 6783>>, <<6832, 6845>>, <<6847, 6862>>, <<6912, 6915>>,
       <<6964, 6964>>, <<6966, 6970>>, <<6972, 6972>>, <<6978, 6978>>, <<7019, 7027>>, <<7040, 7041>>,
       <<7074, 7077>>, <<7080, 7081>>, <<7083, 7085>>, <<7142, 7142>>, <<7144, 7145>>, <<7149, 7149>>,
       <<7151, 7153>>, <<7212, 7219>>, <<7222, 7223>>, <<7376, 7378>>, <<7380, 7392>>, <<7394, 7400>>,
       <<7405, 7405>>, <<7412, 7412>>, <<7416, 7417>>, <<7616, 7679>>, <<8400, 8412>>, <<8417, 8417>>,
       <<8421, 8432>>, <<11503, 11505>>, <<11647, 11647>>, <<11744, 11775>>, <<12330, 12333>>, <<12441, 12442>>,
       <<42607, 42607>>, <<42612, 42621>>, <<42654, 42655>>, <<42736, 42737>>, <<43010, 43010>>, <<43014, 43014>>,
       <<43019, 43019>>, <<43045, 43046>>, <<43052, 43052>>, <<43204, 43205>>, <<43232, 43249>>, <<43263, 43263>>,
       <<43302, 43309>>, <<43335, 43345>>, <<43392, 43394>>, <<43443, 43443>>, <<43446, 43449>>, <<43452, 43453>>,
       <<43493, 43493>>, <<43561, 43566>>, <<43569, 43570>>, <<43573, 43574>>, <<43587, 43587>>, <<43596, 43596>>,
       <<43644, 43644>>, <<43696, 43696>>, <<43698, 43700>>, <<43703, 43704>>, <<43710, 43711>>, <<43713, 43713>>,
       <<43756, 43757>>, <<43766, 43766>>, <<44005, 44005>>, <<44008, 44008>>, <<44013, 44013>>, <<64286, 64286>>,
       <<65024, 65039>>, <<65056, 65071>>, <<66045, 66045>>, <<66272, 66272>>, <<66422, 66426>>, <<68097, 68099>>,
       <<68101, 68102>>, <<68108, 68111>>, <<68152, 68154>>, <<68159, 68159>>, <<68325, 68326>>, <<68900, 68903>>,
       <<69291, 69292>>, <<69446, 69456>>, <<69506, 69509>>, <<69633, 69633>>, <<69688, 69702>>, <<69744, 69744>>,
       <<69747, 69748>>, <<69759, 69761>>, <<69811, 69814>>, <<69817, 69818>>, <<69826, 69826>>, <<69888, 69890>>,
       <<69927, 69931>>, <<69933, 69940>>, <<70003, 70003>>, <<70016, 70017>>, <<70070, 70078>>, <<70089, 70092>>,
       <<70095, 70095>>, <<70191, 70193>>, <<70196, 70196>>, <<70198, 70199>>, <<70206, 70206>>, <<70367, 70367>>,
       <<70371, 70378>>, <<70400, 70401>>, <<70459, 70460>>, <<70464, 70464>>, <<70502, 70508>>, <<70512, 70516>>,
       <<70712, 70719>>, <<70722, 70724>>, <<70726, 70726>>, <<70750, 70750>>, <<70835, 70840>>, <<70842, 70842>>,
       <<70847, 70848>>, <<70850, 70851>>, <<71090, 71093>>, <<71100, 71101>>, <<71103, 71104>>, <<71132, 71133>>,
       <<71219, 71226>>, <<71229, 71229>>, <<71231, 71232>>, <<71339, 71339>>, <<71341, 71341>>, <<71344, 71349>>,
       <<71351, 71351>>, <<71453, 71455>>, <<71458, 71461>>, <<71463, 71467>>, <<71727, 71735>>, <<71737, 71738>>,
       <<71995, 71996>>, <<71998, 71998>>, <<72003, 72003>>, <<72148, 72151>>, <<72154, 72155>>, <<72160, 72160>>,
       <<72193, 72202>>, <<72243, 72248>>, <<72251, 72254>>, <<72263, 72263>>, <<72273, 72278>>, <<72281, 72283>>,
       <<72330, 72342>>, <<72344, 72345>>, <<72752, 72758>>, <<72760, 72765>>, <<72767, 72767>>, <<72850, 72871>>,
       <<72874, 72880>>, <<72882, 72883>>, <<72885, 72886>>, <<73009, 73014>>, <<73018, 73018>>, <<73020, 73021>>,
       <<73023, 73029>>, <<73031, 73031>>, <<73104, 73105>>, <<73109, 73109>>, <<73111, 73111>>, <<73459, 73460>>,
       <<92912, 92916>>, <<92976, 92982>>, <<94031, 94031>>, <<94095, 94098>>, <<94180, 94180>>, <<113821, 113822>>,
       <<118528, 118573>>, <<118576, 118598>>, <<119143, 119145>>, <<119163, 119170>>, <<119173, 119179>>, <<119210, 119213>>,
       <<119362, 119364>>, <<121344, 121398>>, <<121403, 121452>>, <<121461, 121461>>, <<121476, 121476>>, <<121499, 121503>>,
       <<121505, 121519>>, <<122880, 122886>>, <<122888, 122904>>, <<122907, 122913>>, <<122915, 122916>>, <<122918, 122922>>,
       <<123184, 123190>>, <<123566, 123566>>, <<123628, 123631>>, <<125136, 125142>>, <<125252, 125258>>, <<917760, 917999>> >>

\* unicode.Punct: the ranges of the punctuation
PunctRanges ==
    << <<33, 35>>, <<37, 42>>, <<44, 47>>, <<58, 59>>, <<63, 64>>, <<91, 93>>,
       <<95, 95>>, <<123, 123>>, <<125, 125>>, <<161, 161>>, <<167, 167>>, <<171, 171>>,
       <<182, 183>>, <<187, 187>>, <<191, 191>>, <<894, 894>>, <<903, 903>>, <<1370, 1375>>,
       <<1417, 1418>>, <<1470, 1470>>, <<1472, 1472>>, <<1475, 1475>>, <<1478, 1478>>, <<1523, 1524>>,
       <<1545, 1546>>, <<1548, 1549>>, <<1563, 1563>>, <<1565, 1567>>, <<1642, 1645>>, <<1748, 1748>>,
       <<1792, 1805>>, <<2039, 2041>>, <<2096, 2110>>, <<2142, 2142>>, <<2404, 2405>>, <<2416, 2416>>,
       <<2557, 2557>>, <<2678, 2678>>, <<2800, 2800>>, <<3191, 3191>>, <<3204, 3204>>, <<3572, 3572>>,
       <<3663, 3663>>, <<3674, 3675>>, <<3844, 3858>>, <<3860, 3860>>, <<3898, 3901>>, <<3973, 3973>>,
       <<4048, 4052>>, <<4057, 4058>>, <<4170, 4175>>, <<4347, 4347>>, <<4960, 4968>>, <<5120, 5120>>,
       <<5742, 5742>>, <<5787, 5788>>, <<5867, 5869>>, <<5941, 5942>>, <<6100, 6102>>, <<6104, 6106>>,
       <<6144, 6154>>, <<6468, 6469>>, <<6686, 6687>>, <<6816, 6822>>, <<6824, 6829>>, <<7002, 7008>>,
       <<7037, 7038>>, <<7164, 7167>>, <<7227, 7231>>, <<7294, 7295>>, <<7360, 7367>>, <<7379, 7379>>,
       <<8208, 8231>>, <<8240, 8259>>, <<8261, 8273>>, <<8275, 8286>>, <<8317, 8318>>, <<8333, 8334>>,
       <<8968, 8971>>, <<9001, 9002>>, <<10088, 10101>>, <<10181, 10182>>, <<10214, 10223>>, <<10627, 10648>>,
       <<10712, 10715>>, <<10748, 10749>>, <<11513, 11516>>, <<11518, 11519>>, <<11632, 11632>>, <<11776, 11822>>,
       <<11824, 11855>>, <<11858, 11869>>, <<12289, 12291>>, <<12296, 12305>>, <<12308, 12319>>, <<12336, 12336>>,
       <<12349, 12349>>, <<12448, 12448>>, <<12539, 12539>>, <<42238, 42239>>, <<42509, 42511>>, <<42611, 42611>>,
       <<42622, 42622>>, <<42738, 42743>>, <<43124, 43127>>, <<43214, 43215>>, <<43256, 43258>>, <<43260, 43260>>,
       <<43310, 43311>>, <<43359, 43359>>, <<43457, 43469>>, <<43486, 43487>>, <<43612, 43615>>, <<43742, 43743>>,
       <<43760, 43761>>, <<44011, 44011>>, <<64830, 64831>>, <<65040, 65049>>, <<65072, 65106>>, <<65108, 65121>>,
       <<65123, 65123>>, <<65128, 65128>>, <<65130, 65131>>, <<65281, 65283>>, <<65285, 65290>>, <<65292, 65295>>,
       <<65306, 65307>>, <<65311, 65312>>, <<65339, 65341>>, <<65343, 65343>>, <<65371, 65371>>, <<65373, 65373>>,
       <<65375, 65381>>, <<65792, 65794>>, <<66463, 66463>>, <<66512, 66512>>, <<66927, 66927>>, <<67671, 67671>>,
       <<67871, 67871>>, <<67903, 67903>>, <<68176, 68184>>, <<68223, 68223>>, <<68336, 68342>>, <<68409, 68415>>,
       <<68505, 68508>>, <<69293, 69293>>, <<69461, 69465>>, <<69510, 69513>>, <<69703, 69709>>, <<69819, 69820>>,
       <<69822, 69825>>, <<69952, 69955>>, <<70004, 70005>>, <<70085, 70088>>, <<70093, 70093>>, <<70107, 70107>>,
       <<70109, 70111>>, <<70200, 70205>>, <<70313, 70313>>, <<70731, 70735>>, <<70746, 70747>>, <<70749, 70749>>,
       <<70854, 70854>>, <<71105, 71127>>, <<71233, 71235>>, <<71264, 71276>>, <<71353, 71353>>, <<71484, 71486>>,
       <<71739, 71739>>, <<72004, 72006>>, <<72162, 72162>>, <<72255, 72262>>, <<72346, 72348>>, <<72350, 72354>>,
       <<72769, 72773>>, <<72816, 72817>>, <<73463, 73464>>, <<73727, 73727>>, <<74864, 74868>>, <<77809, 77810>>,
       <<92782, 92783>>, <<92917, 92917>>, <<92983, 92987>>, <<92996, 92996>>, <<93847, 93850>>, <<94178, 94178>>,
       <<113823, 113823>>, <<121479, 121483>>, <<125278, 125279>> >>

\* the canonical combining classes that are not zero: first rune, last
\* rune, class
CccRanges ==
    << <<768, 788, 230>>, <<789, 789, 232>>, <<790, 793, 220>>, <<794, 794, 232>>, <<795, 795, 216>>,
       <<796, 800, 220>>, <<801, 802, 202>>, <<803, 806, 220>>, <<807, 808, 202>>, <<809, 819, 220>>,
       <<820, 824, 1>>, <<825, 828, 220>>, <<829, 836, 230>>, <<837, 837, 240>>, <<838, 838, 230>>,
       <<839, 841, 220>>, <<842, 844, 230>>, <<845, 846, 220>>, <<848, 850, 230>>, <<851, 854, 220>>,
       <<855, 855, 230>>, <<856, 856, 232>>, <<857, 858, 220>>, <<859, 859, 230>>, <<860, 860, 233>>,
       <<861, 862, 234>>, <<863, 863, 233>>, <<864, 865, 234>>, <<866, 866, 233>>, <<867, 879, 230>>,
       <<1155, 1159, 230>>, <<1425, 1425, 220>>, <<1426, 1429, 230>>, <<1430, 1430, 220>>, <<1431, 1433, 230>>,
       <<1434, 1434, 222>>, <<1435, 1435, 220>>, <<1436, 1441, 230>>, <<1442, 1447, 220>>, <<1448, 1449, 230>>,
       <<1450, 1450, 220>>, <<1451, 1452, 230>>, <<1453, 1453, 222>>, <<1454, 1454, 228>>, <<1455, 1455, 230>>,
       <<1456, 1456, 10>>, <<1457, 1457, 11>>, <<1458, 1458, 12>>, <<1459, 1459, 13>>, <<1460, 1460, 14>>,
       <<1461, 1461, 15>>, <<1462, 1462, 16>>, <<1463, 1463, 17>>, <<1464, 1464, 18>>, <<1465, 1466, 19>>,
       <<1467, 1467, 20>>, <<1468, 1468, 21>>, <<1469, 1469, 22>>, <<1471, 1471, 23>>, <<1473, 1473, 24>>,
       <<1474, 1474, 25>>, <<1476, 1476, 230>>, <<1477, 1477, 220>>, <<1479, 1479, 18>>, <<1552, 1559, 230>>,
       <<1560, 1560, 30>>, <<1561, 1561, 31>>, <<1562, 1562, 32>>, <<1611, 1611, 27>>, <<1612, 1612, 28>>,
       <<1613, 1613, 29>>, <<1614, 1614, 30>>, <<1615, 1615, 31>>, <<1616, 1616, 32>>, <<1617, 1617, 33>>,
       <<1618, 1618, 34>>, <<1619, 1620, 230>>, <<1621, 1622, 220>>, <<1623, 1627, 230>>, <<1628, 1628, 220>>,
       <<1629, 1630, 230>>, <<1631, 1631, 220>>, <<1648, 1648, 35>>, <<1750, 1756, 230>>, <<1759, 1762, 230>>,
       <<1763, 1763, 220>>, <<1764, 1764, 230>>, <<1767, 1768, 230>>, <<1770, 1770, 220>>, <<1771, 1772, 230>>,
       <<1773, 1773, 220>>, <<1809, 1809, 36>>, <<1840, 1840, 230>>, <<1841, 1841, 220>>, <<1842, 1843, 230>>,
       <<1844, 1844, 220>>, <<1845, 1846, 230>>, <<1847, 1849, 220>>, <<1850, 1850, 230>>, <<1851, 1852, 220>>,
       <<1853, 1853, 230>>, <<1854, 1854, 220>>, <<1855, 1857, 230>>, <<1858, 1858, 220>>, <<1859, 1859, 230>>,
       <<1860, 1860, 220>>, <<1861, 1861, 230>>, <<1862, 1862, 220>>, <<1863, 1863, 230>>, <<1864, 1864, 220>>,
       <<1865, 1866, 230>>, <<2027, 2033, 230>>, <<2034, 2034, 220>>, <<2035, 2035, 230>>, <<2045, 2045, 220>>,
       <<2070, 2073, 230>>, <<2075, 2083, 230>>, <<2085, 2087, 230>>, <<2089, 2093, 230>>, <<2137, 2139, 220>>,
       <<2200, 2200, 230>>, <<2201, 2203, 220>>, <<2204, 2207, 230>>, <<2250, 2254, 230>>, <<2255, 2259, 220>>,
       <<2260, 2273, 230>>, <<2275, 2275, 220>>, <<2276, 2277, 230>>, <<2278, 2278, 220>>, <<2279, 2280, 230>>,
       <<2281, 2281, 220>>, <<2282, 2284, 230>>, <<2285, 2287, 220>>, <<2288, 2288, 27>>, <<2289, 2289, 28>>,
       <<2290, 2290, 29>>, <<2291, 2293, 230>>, <<2294, 2294, 220>>, <<2295, 2296, 230>>, <<2297, 2298, 220>>,
       <<2299, 2303, 230>>, <<2364, 2364, 7>>, <<2381, 2381, 9>>, <<2385, 2385, 230>>, <<2386, 2386, 220>>,
       <<2387, 2388, 230>>, <<2492, 2492, 7>>, <<2509, 2509, 9>>, <<2558, 2558, 230>>, <<2620, 2620, 7>>,
       <<2637, 2637, 9>>, <<2748, 2748, 7>>, <<2765, 2765, 9>>, <<2876, 2876, 7>>, <<2893, 2893, 9>>,
       <<3021, 3021, 9>>, <<3132, 3132, 7>>, <<3149, 3149, 9>>, <<3157, 3157, 84>>, <<3158, 3158, 91>>,
       <<3260, 3260, 7>>, <<3277, 3277, 9>>, <<3387, 3388, 9>>, <<3405, 3405, 9>>, <<3530, 3530, 9>>,
       <<3640, 3641, 103>>, <<3642, 3642, 9>>, <<3656, 3659, 107>>, <<3768, 3769, 118>>, <<3770, 3770, 9>>,
       <<3784, 3787, 122>>, <<3864, 3865, 220>>, <<3893, 3893, 220>>, <<3895, 3895, 220>>, <<3897, 3897, 216>>,
       <<3953, 3953, 129>>, <<3954, 3954, 130>>, <<3956, 3956, 132>>, <<3962, 3965, 130>>, <<3968, 3968, 130>>,
       <<3970, 3971, 230>>, <<3972, 3972, 9>>, <<3974, 3975, 230>>, <<4038, 4038, 220>>, <<4151, 4151, 7>>,
       <<4153, 4154, 9>>, <<4237, 4237, 220>>, <<4957, 4959, 230>>, <<5908, 5909, 9>>, <<5940, 5940, 9>>,
       <<6098, 6098, 9>>, <<6109, 6109, 230>>, <<6313, 6313, 228>>, <<6457, 6457, 222>>, <<6458, 6458, 230>>,
       <<6459, 6459, 220>>, <<6679, 6679, 230>>, <<6680, 6680, 220>>, <<6752, 6752, 9>>, <<6773, 6780, 230>>,
       <<6783, 6783, 220>>, <<6832, 6836, 230>>, <<6837, 6842, 220>>, <<6843, 6844, 230>>, <<6845, 6845, 220>>,
       <<6847, 6848, 220>>, <<6849, 6850, 230>>, <<6851, 6852, 220>>, <<6853, 6857, 230>>, <<6858, 6858, 220>>,
       <<6859, 6862, 230>>, <<6964, 6964, 7>>, <<6980, 6980, 9>>, <<7019, 7019, 230>>, <<7020, 7020, 220>>,
       <<7021, 7027, 230>>, <<7082, 7083, 9>>, <<7142, 7142, 7>>, <<7154, 7155, 9>>, <<7223, 7223, 7>>,
       <<7376, 7378, 230>>, <<7380, 7380, 1>>, <<7381, 7385, 220>>, <<7386, 7387, 230>>, <<7388, 7391, 220>>,
       <<7392, 7392, 230>>, <<7394, 7400, 1>>, <<7405, 7405, 220>>, <<7412, 7412, 230>>, <<7416, 7417, 230>>,
       <<7616, 7617, 230>>, <<7618, 7618, 220>>, <<7619, 7625, 230>>, <<7626, 7626, 220>>, <<7627, 7628, 230>>,
       <<7629, 7629, 234>>, <<7630, 7630, 214>>, <<7631, 7631, 220>>, <<7632, 7632, 202>>, <<7633, 7669, 230>>,
       <<7670, 7670, 232>>, <<7671, 7672, 228>>, <<7673, 7673, 220>>, <<7674, 7674, 218>>, <<7675, 7675, 230>>,
       <<7676, 7676, 233>>, <<7677, 7677, 220>>, <<7678, 7678, 230>>, <<7679, 7679, 220>>, <<8400, 8401, 230>>,
       <<8402, 8403, 1>>, <<8404, 8407, 230>>, <<8408, 8410, 1>>, <<8411, 8412, 230>>, <<8417, 8417, 230>>,
       <<8421, 8422, 1>>, <<8423, 8423, 230>>, <<8424, 8424, 220>>, <<8425, 8425, 230>>, <<8426, 8427, 1>>,
       <<8428, 8431, 220>>, <<8432, 8432, 230>>, <<11503, 11505, 230>>, <<11647, 11647, 9>>, <<11744, 11775, 230>>,
       <<12330, 12330, 218>>, <<12331, 12331, 228>>, <<12332, 12332, 232>>, <<12333, 12333, 222>>, <<12334, 12335, 224>>,
       <<12441, 12442, 8>>, <<42607, 42607, 230>>, <<42612, 42621, 230>>, <<42654, 42655, 230>>, <<42736, 42737, 230>>,
       <<43014, 43014, 9>>, <<43052, 43052, 9>>, <<43204, 43204, 9>>, <<43232, 43249, 230>>, <<43307, 43309, 220>>,
       <<43347, 43347, 9>>, <<43443, 43443, 7>>, <<43456, 43456, 9>>, <<43696, 43696, 230>>, <<43698, 43699, 230>>,
       <<43700, 43700, 220>>, <<43703, 43704, 230>>, <<43710, 43711, 230>>, <<43713, 43713, 230>>, <<43766, 43766, 9>>,
       <<44013, 44013, 9>>, <<64286, 64286, 26>>, <<65056, 65062, 230>>, <<65063, 65069, 220>>, <<65070, 65071, 230>>,
       <<66045, 66045, 220>>, <<66272, 66272, 220>>, <<66422, 66426, 230>>, <<68109, 68109, 220>>, <<68111, 68111, 230>>,
       <<68152, 68152, 230>>, <<68153, 68153, 1>>, <<68154, 68154, 220>>, <<68159, 68159, 9>>, <<68325, 68325, 230>>,
       <<68326, 68326, 220>>, <<68900, 68903, 230>>, <<69291, 69292, 230>>, <<69446, 69447, 220>>, <<69448, 69450, 230>>,
       <<69451, 69451, 220>>, <<69452, 69452, 230>>, <<69453, 69456, 220>>, <<69506, 69506, 230>>, <<69507, 69507, 220>>,
       <<69508, 69508, 230>>, <<69509, 69509, 220>>, <<69702, 69702, 9>>, <<69744, 69744, 9>>, <<69759, 69759, 9>>,
       <<69817, 69817, 9>>, <<69818, 69818, 7>>, <<69888, 69890, 230>>, <<69939, 69940, 9>>, <<70003, 70003, 7>>,
       <<70080, 70080, 9>>, <<70090, 70090, 7>>, <<70197, 70197, 9>>, <<70198, 70198, 7>>, <<70377, 70377, 7>>,
       <<70378, 70378, 9>>, <<70459, 70460, 7>>, <<70477, 70477, 9>>, <<70502, 70508, 230>>, <<70512, 70516, 230>>,
       <<70722, 70722, 9>>, <<70726, 70726, 7>>, <<70750, 70750, 230>>, <<70850, 70850, 9>>, <<70851, 70851, 7>>,
       <<71103, 71103, 9>>, <<71104, 71104, 7>>, <<71231, 71231, 9>>, <<71350, 71350, 9>>, <<71351, 71351, 7>>,
       <<71467, 71467, 9>>, <<71737, 71737, 9>>, <<71738, 71738, 7>>, <<71997, 71998, 9>>, <<72003, 72003, 7>>,
       <<72160, 72160, 9>>, <<72244, 72244, 9>>, <<72263, 72263, 9>>, <<72345, 72345, 9>>, <<72767, 72767, 9>>,
       <<73026, 73026, 7>>, <<73028, 73029, 9>>, <<73111, 73111, 9>>, <<92912, 92916, 1>>, <<92976, 92982, 230>>,
       <<94192, 94193, 6>>, <<113822, 113822, 1>>, <<119141, 119142, 216>>, <<119143, 119145, 1>>, <<119149, 119149, 226>>,
       <<119150, 119154, 216>>, <<119163, 119170, 220>>, <<119173, 119177, 230>>, <<119178, 119179, 220>>, <<119210, 119213, 230>>,
       <<119362, 119364, 230>>, <<122880, 122886, 230>>, <<122888, 122904, 230>>, <<122907, 122913, 230>>, <<122915, 122916, 230>>,
       <<122918, 122922, 230>>, <<123184, 123190, 230>>, <<123566, 123566, 230>>, <<123628, 123631, 230>>, <<125136, 125142, 220>>,
       <<125252, 125257, 230>>, <<125258, 125258, 7>> >>

\* the runes with a canonical decomposition, the Hangul syllables apart, in
\* ascending order
DecompRunes ==
    << 192, 193, 194, 195, 196, 197, 199, 200, 201, 202,
       203, 204, 205, 206, 207, 209, 210, 211, 212, 213,
       214, 217, 218, 219, 220, 221, 224, 225, 226, 227,
       228, 229, 231, 232, 233, 234, 235, 236, 237, 238,
       239, 241, 242, 243, 244, 245, 246, 249, 250, 251,
       252, 253, 255, 256, 257, 258, 259, 260, 261, 262,
       263, 264, 265, 266, 267, 268, 269, 270, 271, 274,
       275, 276, 277, 278, 279, 280, 281, 282, 283, 284,
       285, 286, 287, 288, 289, 290, 291, 292, 293, 296,
       297, 298, 299, 300, 301, 302, 303, 304, 308, 309,
       310, 311, 313, 314, 315, 316, 317, 318, 323, 324,
       325, 326, 327, 328, 332, 333, 334, 335, 336, 337,
       340, 341, 342, 343, 344, 345, 346, 347, 348, 349,
       350, 351, 352, 353, 354, 355, 356, 357, 360, 361,
       362, 363, 364, 365, 366, 367, 368, 369, 370, 371,
       372, 373, 374, 375, 376, 377, 378, 379, 380, 381,
       382, 416, 417, 431, 432, 461, 462, 463, 464, 465,
       466, 467, 468, 469, 470, 471, 472, 473, 474, 475,
       476, 478, 479, 480, 481, 482, 483, 486, 487, 488,
       489, 490, 491, 492, 493, 494, 495, 496, 500, 501,
       504, 505, 506, 507, 508, 509, 510, 511, 512, 513,
       514, 515, 516, 517, 518, 519, 520, 521, 522, 523,
       524, 525, 526, 527, 528, 529, 530, 531, 532, 533,
       534, 535, 536, 537, 538, 539, 542, 543, 550, 551,
       552, 553, 554, 555, 556, 557, 558, 559, 560, 561,
       562, 563, 832, 833, 835, 836, 884, 894, 901, 902,
       903, 904, 905, 906, 908, 910, 911, 912, 938, 939,
       940, 941, 942, 943, 944, 970, 971, 972, 973, 974,
       979, 980, 1024, 1025, 1027, 1031, 1036, 1037, 1038, 1049,
       1081, 1104, 1105, 1107, 1111, 1116, 1117, 1118, 1142, 1143,
       1217, 1218, 1232, 1233, 1234, 1235, 1238, 1239, 1242, 1243,
       1244, 1245, 1246, 1247, 1250, 1251, 1252, 1253, 1254, 1255,
       1258, 1259, 1260, 1261, 1262, 1263, 1264, 1265, 1266, 1267,
       1268, 1269, 1272, 1273, 1570, 1571, 1572, 1573, 1574, 1728,
       1730, 1747, 2345, 2353, 2356, 2392, 2393, 2394, 2395, 2396,
       2397, 2398, 2399, 2507, 2508, 2524, 2525, 2527, 2611, 2614,
       2649, 2650, 2651, 2654, 2888, 2891, 2892, 2908, 2909, 2964,
       3018, 3019, 3020, 3144, 3264, 3271, 3272, 3274, 3275, 3402,
       3403, 3404, 3546, 3548, 3549, 3550, 3907, 3917, 3922, 3927,
       3932, 3945, 3955, 3957, 3958, 3960, 3969, 3987, 3997, 4002,
       4007, 4012, 4025, 4134, 6918, 6920, 6922, 6924, 6926, 6930,
       6971, 6973, 6976, 6977, 6979, 7680, 7681, 7682, 7683, 7684,
       7685, 7686, 7687, 7688, 7689, 7690, 7691, 7692, 7693, 7694,
       7695, 7696, 7697, 7698, 7699, 7700, 7701, 7702, 7703, 7704,
       7705, 7706, 7707, 7708, 7709, 7710, 7711, 7712, 7713, 7714,
       7715, 7716, 7717, 7718, 7719, 7720, 7721, 7722, 7723, 7724,
       7725, 7726, 7727, 7728, 7729, 7730, 7731, 7732, 7733, 7734,
       7735, 7736, 7737, 7738, 7739, 7740, 7741, 7742, 7743, 7744,
       7745, 7746, 7747, 7748, 7749, 7750, 7751, 7752, 7753, 7754,
       7755, 7756, 7757, 7758, 7759, 7760, 7761, 7762, 7763, 7764,
       7765, 7766, 7767, 7768, 7769, 7770, 7771, 7772, 7773, 7774,
       7775, 7776, 7777, 7778, 7779, 7780, 7781, 7782, 7783, 7784,
       7785, 7786, 7787, 7788, 7789, 7790, 7791, 7792, 7793, 7794,
       7795, 7796, 7797, 7798, 7799, 7800, 7801, 7802, 7803, 7804,
       7805, 7806, 7807, 7808, 7809, 7810, 7811, 7812, 7813, 7814,
       7815, 7816, 7817, 7818, 7819, 7820, 7821, 7822, 7823, 7824,
       7825, 7826, 7827, 7828, 7829, 7830, 7831, 7832, 7833, 7835,
       7840, 7841, 7842, 7843, 7844, 7845, 7846, 7847, 7848, 7849,
       7850, 7851, 7852, 7853, 7854, 7855, 7856, 7857, 7858, 7859,
       7860, 7861, 7862, 7863, 7864, 7865, 7866, 7867, 7868, 7869,
       7870, 7871, 7872, 7873, 7874, 7875, 7876, 7877, 7878, 7879,
       7880, 7881, 7882, 7883, 7884, 7885, 7886, 7887, 7888, 7889,
       7890, 7891, 7892, 7893, 7894, 7895, 7896, 7897, 7898, 7899,
       7900, 7901, 7902, 7903, 7904, 7905, 7906, 7907, 7908, 7909,
       7910, 7911, 7912, 7913, 7914, 7915, 7916, 7917, 7918, 7919,
       7920, 7921, 7922, 7923, 7924, 7925, 7926, 7927, 7928, 7929,
       7936, 7937, 7938, 7939, 7940, 7941, 7942, 7943, 7944, 7945,
       7946, 7947, 7948, 7949, 7950, 7951, 7952, 7953, 7954, 7955,
       7956, 7957, 7960, 7961, 7962, 7963, 7964, 7965, 7968, 7969,
       7970, 7971, 7972, 7973, 7974, 7975, 7976, 7977, 7978, 7979,
       7980, 7981, 7982, 7983, 7984, 7985, 7986, 7987, 7988, 7989,
       7990, 7991, 7992, 7993, 7994, 7995, 7996, 7997, 7998, 7999,
       8000, 8001, 8002, 8003, 8004, 8005, 8008, 8009, 8010, 8011,
       8012, 8013, 8016, 8017, 8018, 8019, 8020, 8021, 8022, 8023,
       8025, 8027, 8029, 8031, 8032, 8033, 8034, 8035, 8036, 8037,
       8038, 8039, 8040, 8041, 8042, 8043, 8044, 8045, 8046, 8047,
       8048, 8049, 8050, 8051, 8052, 8053, 8054, 8055, 8056, 8057,
       8058, 8059, 8060, 8061, 8064, 8065, 8066, 8067, 8068, 8069,
       8070, 8071, 8072, 8073, 8074, 8075, 8076, 8077, 8078, 8079,
       8080, 8081, 8082, 8083, 8084, 8085, 8086, 8087, 8088, 8089,
       8090, 8091, 8092, 8093, 8094, 8095, 8096, 8097, 8098, 8099,
       8100, 8101, 8102, 8103, 8104, 8105, 8106, 8107, 8108, 8109,
       8110, 8111, 8112, 8113, 8114, 8115, 8116, 8118, 8119, 8120,
       8121, 8122, 8123, 8124, 8126, 8129, 8130, 8131, 8132, 8134,
       8135, 8136, 8137, 8138, 8139, 8140, 8141, 8142, 8143, 8144,
       8145, 8146, 8147, 8150, 8151, 8152, 8153, 8154, 8155, 8157,
       8158, 8159, 8160, 8161, 8162, 8163, 8164, 8165, 8166, 8167,
       8168, 8169, 8170, 8171, 8172, 8173, 8174, 8175, 8178, 8179,
       8180, 8182, 8183, 8184, 8185, 8186, 8187, 8188, 8189, 8192,
       8193, 8486, 8490, 8491, 8602, 8603, 8622, 8653, 8654, 8655,
       8708, 8713, 8716, 8740, 8742, 8769, 8772, 8775, 8777, 8800,
       8802, 8813, 8814, 8815, 8816, 8817, 8820, 8821, 8824, 8825,
       8832, 8833, 8836, 8837, 8840, 8841, 8876, 8877, 8878, 8879,
       8928, 8929, 8930, 8931, 8938, 8939, 8940, 8941, 9001, 9002,
       10972, 12364, 12366, 12368, 12370, 12372, 12374, 12376, 12378, 12380,
       12382, 12384, 12386, 12389, 12391, 12393, 12400, 12401, 12403, 12404,
       12406, 12407, 12409, 12410, 12412, 12413, 12436, 12446, 12460, 12462,
       12464, 12466, 12468, 12470, 12472, 12474, 12476, 12478, 12480, 12482,
       12485, 12487, 12489, 12496, 12497, 12499, 12500, 12502, 12503, 12505,
       12506, 12508, 12509, 12532, 12535, 12536, 12537, 12538, 12542, 63744,
       63745, 63746, 63747, 63748, 63749, 63750, 63751, 63752, 63753, 63754,
       63755, 63756, 63757, 63758, 63759, 63760, 63761, 63762, 63763, 63764,
       63765, 63766, 63767, 63768, 63769, 63770, 63771, 63772, 63773, 63774,
       63775, 63776, 63777, 63778, 63779, 63780, 63781, 63782, 63783, 63784,
       63785, 63786, 63787, 63788, 63789, 63790, 63791, 63792, 63793, 63794,
       63795, 63796, 63797, 63798, 63799, 63800, 63801, 63802, 63803, 63804,
       63805, 63806, 63807, 63808, 63809, 63810, 63811, 63812, 63813, 63814,
       63815, 63816, 63817, 63818, 63819, 63820, 63821, 63822, 63823, 63824,
       63825, 63826, 63827, 63828, 63829, 63830, 63831, 63832, 63833, 63834,
       63835, 63836, 63837, 63838, 63839, 63840, 63841, 63842, 63843, 63844,
       63845, 63846, 63847, 63848, 63849, 63850, 63851, 63852, 63853, 63854,
       63855, 63856, 63857, 63858, 63859, 63860, 63861, 63862, 63863, 63864,
       63865, 63866, 63867, 63868, 63869, 63870, 63871, 63872, 63873, 63874,
       63875, 63876, 63877, 63878, 63879, 63880, 63881, 63882, 63883, 63884,
       63885, 63886, 63887, 63888, 63889, 63890, 63891, 63892, 63893, 63894,
       63895, 63896, 63897, 63898, 63899, 63900, 63901, 63902, 63903, 63904,
       63905, 63906, 63907, 63908, 63909, 63910, 63911, 63912, 63913, 63914,
       63915, 63916, 63917, 63918, 63919, 63920, 63921, 63922, 63923, 63924,
       63925, 63926, 63927, 63928, 63929, 63930, 63931, 63932, 63933, 63934,
       63935, 63936, 63937, 63938, 63939, 63940, 63941, 63942, 63943, 63944,
       63945, 63946, 63947, 63948, 63949, 63950, 63951, 63952, 63953, 63954,
       63955, 63956, 63957, 63958, 63959, 63960, 63961, 63962, 63963, 63964,
       63965, 63966, 63967, 63968, 63969, 63970, 63971, 63972, 63973, 63974,
       63975, 63976, 63977, 63978, 63979, 63980, 63981, 63982, 63983, 63984,
       63985, 63986, 63987, 63988, 63989, 63990, 63991, 63992, 63993, 63994,
       63995, 63996, 63997, 63998, 63999, 64000, 64001, 64002, 64003, 64004,
       64005, 64006, 64007, 64008, 64009, 64010, 64011, 64012, 64013, 64016,
       64018, 64021, 64022, 64023, 64024, 64025, 64026, 64027, 64028, 64029,
       64030, 64032, 64034, 64037, 64038, 64042, 64043, 64044, 64045, 64046,
       64047, 64048, 64049, 64050, 64051, 64052, 64053, 64054, 64055, 64056,
       64057, 64058, 64059, 64060, 64061, 64062, 64063, 64064, 64065, 64066,
       64067, 64068, 64069, 64070, 64071, 64072, 64073, 64074, 64075, 64076,
       64077, 64078, 64079, 64080, 64081, 64082, 64083, 64084, 64085, 64086,
       64087, 64088, 64089, 64090, 64091, 64092, 64093, 64094, 64095, 64096,
       64097, 64098, 64099, 64100, 64101, 64102, 64103, 64104, 64105, 64106,
       64107, 64108, 64109, 64112, 64113, 64114, 64115, 64116, 64117, 64118,
       64119, 64120, 64121, 64122, 64123, 64124, 64125, 64126, 64127, 64128,
       64129, 64130, 64131, 64132, 64133, 64134, 64135, 64136, 64137, 64138,
       64139, 64140, 64141, 64142, 64143, 64144, 64145, 64146, 64147, 64148,
       64149, 64150, 64151, 64152, 64153, 64154, 64155, 64156, 64157, 64158,
       64159, 64160, 64161, 64162, 64163, 64164, 64165, 64166, 64167, 64168,
       64169, 64170, 64171, 64172, 64173, 64174, 64175, 64176, 64177, 64178,
       64179, 64180, 64181, 64182, 64183, 64184, 64185, 64186, 64187, 64188,
       64189, 64190, 64191, 64192, 64193, 64194, 64195, 64196, 64197, 64198,
       64199, 64200, 64201, 64202, 64203, 64204, 64205, 64206, 64207, 64208,
       64209, 64210, 64211, 64212, 64213, 64214, 64215, 64216, 64217, 64285,
       64287, 64298, 64299, 64300, 64301, 64302, 64303, 64304, 64305, 64306,
       64307, 64308, 64309, 64310, 64312, 64313, 64314, 64315, 64316, 64318,
       64320, 64321, 64323, 64324, 64326, 64327, 64328, 64329, 64330, 64331,
       64332, 64333, 64334, 69786, 69788, 69803, 69934, 69935, 70475, 70476,
       70843, 70844, 70846, 71098, 71099, 71992, 119134, 119135, 119136, 119137,
       119138, 119139, 119140, 119227, 119228, 119229, 119230, 119231, 119232, 194560,
       194561, 194562, 194563, 194564, 194565, 194566, 194567, 194568, 194569, 194570,
       194571, 194572, 194573, 194574, 194575, 194576, 194577, 194578, 194579, 194580,
       194581, 194582, 194583, 194584, 194585, 194586, 194587, 194588, 194589, 194590,
       194591, 194592, 194593, 194594, 194595, 194596, 194597, 194598, 194599, 194600,
       194601, 194602, 194603, 194604, 194605, 194606, 194607, 194608, 194609, 194610,
       194611, 194612, 194613, 194614, 194615, 194616, 194617, 194618, 194619, 194620,
       194621, 194622, 194623, 194624, 194625, 194626, 194627, 194628, 194629, 194630,
       194631, 194632, 194633, 194634, 194635, 194636, 194637, 194638, 194639, 194640,
       194641, 194642, 194643, 194644, 194645, 194646, 194647, 194648, 194649, 194650,
       194651, 194652, 194653, 194654, 194655, 194656, 194657, 194658, 194659, 194660,
       194661, 194662, 194663, 194664, 194665, 194666, 194667, 194668, 194669, 194670,
       194671, 194672, 194673, 194674, 194675, 194676, 194677, 194678, 194679, 194680,
       194681, 194682, 194683, 194684, 194685, 194686, 194687, 194688, 194689, 194690,
       194691, 194692, 194693, 194694, 194695, 194696, 194697, 194698, 194699, 194700,
       194701, 194702, 194703, 194704, 194705, 194706, 194707, 194708, 194709, 194710,
       194711, 194712, 194713, 194714, 194715, 194716, 194717, 194718, 194719, 194720,
       194721, 194722, 194723, 194724, 194725, 194726, 194727, 194728, 194729, 194730,
       194731, 194732, 194733, 194734, 194735, 194736, 194737, 194738, 194739, 194740,
       194741, 194742, 194743, 194744, 194745, 194746, 194747, 194748, 194749, 194750,
       194751, 194752, 194753, 194754, 194755, 194756, 194757, 194758, 194759, 194760,
       194761, 194762, 194763, 194764, 194765, 194766, 194767, 194768, 194769, 194770,
       194771, 194772, 194773, 194774, 194775, 194776, 194777, 194778, 194779, 194780,
       194781, 194782, 194783, 194784, 194785, 194786, 194787, 194788, 194789, 194790,
       194791, 194792, 194793, 194794, 194795, 194796, 194797, 194798, 194799, 194800,
       194801, 194802, 194803, 194804, 194805, 194806, 194807, 194808, 194809, 194810,
       194811, 194812, 194813, 194814, 194815, 194816, 194817, 194818, 194819, 194820,
       194821, 194822, 194823, 194824, 194825, 194826, 194827, 194828, 194829, 194830,
       194831, 194832, 194833, 194834, 194835, 194836, 194837, 194838, 194839, 194840,
       194841, 194842, 194843, 194844, 194845, 194846, 194847, 194848, 194849, 194850,
       194851, 194852, 194853, 194854, 194855, 194856, 194857, 194858, 194859, 194860,
       194861, 194862, 194863, 194864, 194865, 194866, 194867, 194868, 194869, 194870,
       194871, 194872, 194873, 194874, 194875, 194876, 194877, 194878, 194879, 194880,
       194881, 194882, 194883, 194884, 194885, 194886, 194887, 194888, 194889, 194890,
       194891, 194892, 194893, 194894, 194895, 194896, 194897, 194898, 194899, 194900,
       194901, 194902, 194903, 194904, 194905, 194906, 194907, 194908, 194909, 194910,
       194911, 194912, 194913, 194914, 194915, 194916, 194917, 194918, 194919, 194920,
       194921, 194922, 194923, 194924, 194925, 194926, 194927, 194928, 194929, 194930,
       194931, 194932, 194933, 194934, 194935, 194936, 194937, 194938, 194939, 194940,
       194941, 194942, 194943, 194944, 194945, 194946, 194947, 194948, 194949, 194950,
       194951, 194952, 194953, 194954, 194955, 194956, 194957, 194958, 194959, 194960,
       194961, 194962, 194963, 194964, 194965, 194966, 194967, 194968, 194969, 194970,
       194971, 194972, 194973, 194974, 194975, 194976, 194977, 194978, 194979, 194980,
       194981, 194982, 194983, 194984, 194985, 194986, 194987, 194988, 194989, 194990,
       194991, 194992, 194993, 194994, 194995, 194996, 194997, 194998, 194999, 195000,
       195001, 195002, 195003, 195004, 195005, 195006, 195007, 195008, 195009, 195010,
       195011, 195012, 195013, 195014, 195015, 195016, 195017, 195018, 195019, 195020,
       195021, 195022, 195023, 195024, 195025, 195026, 195027, 195028, 195029, 195030,
       195031, 195032, 195033, 195034, 195035, 195036, 195037, 195038, 195039, 195040,
       195041, 195042, 195043, 195044, 195045, 195046, 195047, 195048, 195049, 195050,
       195051, 195052, 195053, 195054, 195055, 195056, 195057, 195058, 195059, 195060,
       195061, 195062, 195063, 195064, 195065, 195066, 195067, 195068, 195069, 195070,
       195071, 195072, 195073, 195074, 195075, 195076, 195077, 195078, 195079, 195080,
       195081, 195082, 195083, 195084, 195085, 195086, 195087, 195088, 195089, 195090,
       195091, 195092, 195093, 195094, 195095, 195096, 195097, 195098, 195099, 195100,
       195101 >>

\* the full canonical decomposition of the k-th rune of DecompRunes
DecompTo ==
    << <<65, 768>>, <<65, 769>>, <<65, 770>>, <<65, 771>>, <<65, 776>>,
       <<65, 778>>, <<67, 807>>, <<69, 768>>, <<69, 769>>, <<69, 770>>,
       <<69, 776>>, <<73, 768>>, <<73, 769>>, <<73, 770>>, <<73, 776>>,
       <<78, 771>>, <<79, 768>>, <<79, 769>>, <<79, 770>>, <<79, 771>>,
       <<79, 776>>, <<85, 768>>, <<85, 769>>, <<85, 770>>, <<85, 776>>,
       <<89, 769>>, <<97, 768>>, <<97, 769>>, <<97, 770>>, <<97, 771>>,
       <<97, 776>>, <<97, 778>>, <<99, 807>>, <<101, 768>>, <<101, 769>>,
       <<101, 770>>, <<101, 776>>, <<105, 768>>, <<105, 769>>, <<105, 770>>,
       <<105, 776>>, <<110, 771>>, <<111, 768>>, <<111, 769>>, <<111, 770>>,
       <<111, 771>>, <<111, 776>>, <<117, 768>>, <<117, 769>>, <<117, 770>>,
       <<117, 776>>, <<121, 769>>, <<121, 776>>, <<65, 772>>, <<97, 772>>,
       <<65, 774>>, <<97, 774>>, <<65, 808>>, <<97, 808>>, <<67, 769>>,
       <<99, 769>>, <<67, 770>>, <<99, 770>>, <<67, 775>>, <<99, 775>>,
       <<67, 780>>, <<99, 780>>, <<68, 780>>, <<100, 780>>, <<69, 772>>,
       <<101, 772>>, <<69, 774>>, <<101, 774>>, <<69, 775>>, <<101, 775>>,
       <<69, 808>>, <<101, 808>>, <<69, 780>>, <<101, 780>>, <<71, 770>>,
       <<103, 770>>, <<71, 774>>, <<103, 774>>, <<71, 775>>, <<103, 775>>,
       <<71, 807>>, <<103, 807>>, <<72, 770>>, <<104, 770>>, <<73, 771>>,
       <<105, 771>>, <<73, 772>>, <<105, 772>>, <<73, 774>>, <<105, 774>>,
       <<73, 808>>, <<105, 808>>, <<73, 775>>, <<74, 770>>, <<106, 770>>,
       <<75, 807>>, <<107, 807>>, <<76, 769>>, <<108, 769>>, <<76, 807>>,
       <<108, 807>>, <<76, 780>>, <<108, 780>>, <<78, 769>>, <<110, 769>>,
       <<78, 807>>, <<110, 807>>, <<78, 780>>, <<110, 780>>, <<79, 772>>,
       <<111, 772>>, <<79, 774>>, <<111, 774>>, <<79, 779>>, <<111, 779>>,
       <<82, 769>>, <<114, 769>>, <<82, 807>>, <<114, 807>>, <<82, 780>>,
       <<114, 780>>, <<83, 769>>, <<115, 769>>, <<83, 770>>, <<115, 770>>,
       <<83, 807>>, <<115, 807>>, <<83, 780>>, <<115, 780>>, <<84, 807>>,
       <<116, 807>>, <<84, 780>>, <<116, 780>>, <<85, 771>>, <<117, 771>>,
       <<85, 772>>, <<117, 772>>, <<85, 774>>, <<117, 774>>, <<85, 778>>,
       <<117, 778>>, <<85, 779>>, <<117, 779>>, <<85, 808>>, <<117, 808>>,
       <<87, 770>>, <<119, 770>>, <<89, 770>>, <<121, 770>>, <<89, 776>>,
       <<90, 769>>, <<122, 769>>, <<90, 775>>, <<122, 775>>, <<90, 780>>,
       <<122, 780>>, <<79, 795>>, <<111, 795>>, <<85, 795>>, <<117, 795>>,
       <<65, 780>>, <<97, 780>>, <<73, 780>>, <<105, 780>>, <<79, 780>>,
       <<111, 780>>, <<85, 780>>, <<117, 780>>, <<85, 776, 772>>, <<117, 776, 772>>,
       <<85, 776, 769>>, <<117, 776, 769>>, <<85, 776, 780>>, <<117, 776, 780>>, <<85, 776, 768>>,
       <<117, 776, 768>>, <<65, 776, 772>>, <<97, 776, 772>>, <<65, 775, 772>>, <<97, 775, 772>>,
       <<198, 772>>, <<230, 772>>, <<71, 780>>, <<103, 780>>, <<75, 780>>,
       <<107, 780>>, <<79, 808>>, <<111, 808>>, <<79, 808, 772>>, <<111, 808, 772>>,
       <<439, 780>>, <<658, 780>>, <<106, 780>>, <<71, 769>>, <<103, 769>>,
       <<78, 768>>, <<110, 768>>, <<65, 778, 769>>, <<97, 778, 769>>, <<198, 769>>,
       <<230, 769>>, <<216, 769>>, <<248, 769>>, <<65, 783>>, <<97, 783>>,
       <<65, 785>>, <<97, 785>>, <<69, 783>>, <<101, 783>>, <<69, 785>>,
       <<101, 785>>, <<73, 783>>, <<105, 783>>, <<73, 785>>, <<105, 785>>,
       <<79, 783>>, <<111, 783>>, <<79, 785>>, <<111, 785>>, <<82, 783>>,
       <<114, 783>>, <<82, 785>>, <<114, 785>>, <<85, 783>>, <<117, 783>>,
       <<85, 785>>, <<117, 785>>, <<83, 806>>, <<115, 806>>, <<84, 806>>,
       <<116, 806>>, <<72, 780>>, <<104, 780>>, <<65, 775>>, <<97, 775>>,
       <<69, 807>>, <<101, 807>>, <<79, 776, 772>>, <<111, 776, 772>>, <<79, 771, 772>>,
       <<111, 771, 772>>, <<79, 775>>, <<111, 775>>, <<79, 775, 772>>, <<111, 775, 772>>,
       <<89, 772>>, <<121, 772>>, <<768>>, <<769>>, <<787>>,
       <<776, 769>>, <<697>>, <<59>>, <<168, 769>>, <<913, 769>>,
       <<183>>, <<917, 769>>, <<919, 769>>, <<921, 769>>, <<927, 769>>,
       <<933, 769>>, <<937, 769>>, <<953, 776, 769>>, <<921, 776>>, <<933, 776>>,
       <<945, 769>>, <<949, 769>>, <<951, 769>>, <<953, 769>>, <<965, 776, 769>>,
       <<953, 776>>, <<965, 776>>, <<959, 769>>, <<965, 769>>, <<969, 769>>,
       <<978, 769>>, <<978, 776>>, <<1045, 768>>, <<1045, 776>>, <<1043, 769>>,
       <<1030, 776>>, <<1050, 769>>, <<1048, 768>>, <<1059, 774>>, <<1048, 774>>,
       <<1080, 774>>, <<1077, 768>>, <<1077, 776>>, <<1075, 769>>, <<1110, 776>>,
       <<1082, 769>>, <<1080, 768>>, <<1091, 774>>, <<1140, 783>>, <<1141, 783>>,
       <<1046, 774>>, <<1078, 774>>, <<1040, 774>>, <<1072, 774>>, <<1040, 776>>,
       <<1072, 776>>, <<1045, 774>>, <<1077, 774>>, <<1240, 776>>, <<1241, 776>>,
       <<1046, 776>>, <<1078, 776>>, <<1047, 776>>, <<1079, 776>>, <<1048, 772>>,
       <<1080, 772>>, <<1048, 776>>, <<1080, 776>>, <<1054, 776>>, <<1086, 776>>,
       <<1256, 776>>, <<1257, 776>>, <<1069, 776>>, <<1101, 776>>, <<1059, 772>>,
       <<1091, 772>>, <<1059, 776>>, <<1091, 776>>, <<1059, 779>>, <<1091, 779>>,
       <<1063, 776>>, <<1095, 776>>, <<1067, 776>>, <<1099, 776>>, <<1575, 1619>>,
       <<1575, 1620>>, <<1608, 1620>>, <<1575, 1621>>, <<1610, 1620>>, <<1749, 1620>>,
       <<1729, 1620>>, <<1746, 1620>>, <<2344, 2364>>, <<2352, 2364>>, <<2355, 2364>>,
       <<2325, 2364>>, <<2326, 2364>>, <<2327, 2364>>, <<2332, 2364>>, <<2337, 2364>>,
       <<2338, 2364>>, <<2347, 2364>>, <<2351, 2364>>, <<2503, 2494>>, <<2503, 2519>>,
       <<2465, 2492>>, <<2466, 2492>>, <<2479, 2492>>, <<2610, 2620>>, <<2616, 2620>>,
       <<2582, 2620>>, <<2583, 2620>>, <<2588, 2620>>, <<2603, 2620>>, <<2887, 2902>>,
       <<2887, 2878>>, <<2887, 2903>>, <<2849, 2876>>, <<2850, 2876>>, <<2962, 3031>>,
       <<3014, 3006>>, <<3015, 3006>>, <<3014, 3031>>, <<3142, 3158>>, <<3263, 3285>>,
       <<3270, 3285>>, <<3270, 3286>>, <<3270, 3266>>, <<3270, 3266, 3285>>, <<3398, 3390>>,
       <<3399, 3390>>, <<3398, 3415>>, <<3545, 3530>>, <<3545, 3535>>, <<3545, 3535, 3530>>,
       <<3545, 3551>>, <<3906, 4023>>, <<3916, 4023>>, <<3921, 4023>>, <<3926, 4023>>,
       <<3931, 4023>>, <<3904, 4021>>, <<3953, 3954>>, <<3953, 3956>>, <<4018, 3968>>,
       <<4019, 3968>>, <<3953, 3968>>, <<3986, 4023>>, <<3996, 4023>>, <<4001, 4023>>,
       <<4006, 4023>>, <<4011, 4023>>, <<3984, 4021>>, <<4133, 4142>>, <<6917, 6965>>,
       <<6919, 6965>>, <<6921, 6965>>, <<6923, 6965>>, <<6925, 6965>>, <<6929, 6965>>,
       <<6970, 6965>>, <<6972, 6965>>, <<6974, 6965>>, <<6975, 6965>>, <<6978, 6965>>,
       <<65, 805>>, <<97, 805>>, <<66, 775>>, <<98, 775>>, <<66, 803>>,
       <<98, 803>>, <<66, 817>>, <<98, 817>>, <<67, 807, 769>>, <<99, 807, 769>>,
       <<68, 775>>, <<100, 775>>, <<68, 803>>, <<100, 803>>, <<68, 817>>,
       <<100, 817>>, <<68, 807>>, <<100, 807>>, <<68, 813>>, <<100, 813>>,
       <<69, 772, 768>>, <<101, 772, 768>>, <<69, 772, 769>>, <<101, 772, 769>>, <<69, 813>>,
       <<101, 813>>, <<69, 816>>, <<101, 816>>, <<69, 807, 774>>, <<101, 807, 774>>,
       <<70, 775>>, <<102, 775>>, <<71, 772>>, <<103, 772>>, <<72, 775>>,
       <<104, 775>>, <<72, 803>>, <<104, 803>>, <<72, 776>>, <<104, 776>>,
       <<72, 807>>, <<104, 807>>, <<72, 814>>, <<104, 814>>, <<73, 816>>,
       <<105, 816>>, <<73, 776, 769>>, <<105, 776, 769>>, <<75, 769>>, <<107, 769>>,
       <<75, 803>>, <<107, 803>>, <<75, 817>>, <<107, 817>>, <<76, 803>>,
       <<108, 803>>, <<76, 803, 772>>, <<108, 803, 772>>, <<76, 817>>, <<108, 817>>,
       <<76, 813>>, <<108, 813>>, <<77, 769>>, <<109, 769>>, <<77, 775>>,
       <<109, 775>>, <<77, 803>>, <<109, 803>>, <<78, 775>>, <<110, 775>>,
       <<78, 803>>, <<110, 803>>, <<78, 817>>, <<110, 817>>, <<78, 813>>,
       <<110, 813>>, <<79, 771, 769>>, <<111, 771, 769>>, <<79, 771, 776>>, <<111, 771, 776>>,
       <<79, 772, 768>>, <<111, 772, 768>>, <<79, 772, 769>>, <<111, 772, 769>>, <<80, 769>>,
       <<112, 769>>, <<80, 775>>, <<112, 775>>, <<82, 775>>, <<114, 775>>,
       <<82, 803>>, <<114, 803>>, <<82, 803, 772>>, <<114, 803, 772>>, <<82, 817>>,
       <<114, 817>>, <<83, 775>>, <<115, 775>>, <<83, 803>>, <<115, 803>>,
       <<83, 769, 775>>, <<115, 769, 775>>, <<83, 780, 775>>, <<115, 780, 775>>, <<83, 803, 775>>,
       <<115, 803, 775>>, <<84, 775>>, <<116, 775>>, <<84, 803>>, <<116, 803>>,
       <<84, 817>>, <<116, 817>>, <<84, 813>>, <<116, 813>>, <<85, 804>>,
       <<117, 804>>, <<85, 816>>, <<117, 816>>, <<85, 813>>, <<117, 813>>,
       <<85, 771, 769>>, <<117, 771, 769>>, <<85, 772, 776>>, <<117, 772, 776>>, <<86, 771>>,
       <<118, 771>>, <<86, 803>>, <<118, 803>>, <<87, 768>>, <<119, 768>>,
       <<87, 769>>, <<119, 769>>, <<87, 776>>, <<119, 776>>, <<87, 775>>,
       <<119, 775>>, <<87, 803>>, <<119, 803>>, <<88, 775>>, <<120, 775>>,
       <<88, 776>>, <<120, 776>>, <<89, 775>>, <<121, 775>>, <<90, 770>>,
       <<122, 770>>, <<90, 803>>, <<122, 803>>, <<90, 817>>, <<122, 817>>,
       <<104, 817>>, <<116, 776>>, <<119, 778>>, <<121, 778>>, <<383, 775>>,
       <<65, 803>>, <<97, 803>>, <<65, 777>>, <<97, 777>>, <<65, 770, 769>>,
       <<97, 770, 769>>, <<65, 770, 768>>, <<97, 770, 768>>, <<65, 770, 777>>, <<97, 770, 777>>,
       <<65, 770, 771>>, <<97, 770, 771>>, <<65, 803, 770>>, <<97, 803, 770>>, <<65, 774, 769>>,
       <<97, 774, 769>>, <<65, 774, 768>>, <<97, 774, 768>>, <<65, 774, 777>>, <<97, 774, 777>>,
       <<65, 774, 771>>, <<97, 774, 771>>, <<65, 803, 774>>, <<97, 803, 774>>, <<69, 803>>,
       <<101, 803>>, <<69, 777>>, <<101, 777>>, <<69, 771>>, <<101, 771>>,
       <<69, 770, 769>>, <<101, 770, 769>>, <<69, 770, 768>>, <<101, 770, 768>>, <<69, 770, 777>>,
       <<101, 770, 777>>, <<69, 770, 771>>, <<101, 770, 771>>, <<69, 803, 770>>, <<101, 803, 770>>,
       <<73, 777>>, <<105, 777>>, <<73, 803>>, <<105, 803>>, <<79, 803>>,
       <<111, 803>>, <<79, 777>>, <<111, 777>>, <<79, 770, 769>>, <<111, 770, 769>>,
       <<79, 770, 768>>, <<111, 770, 768>>, <<79, 770, 777>>, <<111, 770, 777>>, <<79, 770, 771>>,
       <<111, 770, 771>>, <<79, 803, 770>>, <<111, 803, 770>>, <<79, 795, 769>>, <<111, 795, 769>>,
       <<79, 795, 768>>, <<111, 795, 768>>, <<79, 795, 777>>, <<111, 795, 777>>, <<79, 795, 771>>,
       <<111, 795, 771>>, <<79, 795, 803>>, <<111, 795, 803>>, <<85, 803>>, <<117, 803>>,
       <<85, 777>>, <<117, 777>>, <<85, 795, 769>>, <<117, 795, 769>>, <<85, 795, 768>>,
       <<117, 795, 768>>, <<85, 795, 777>>, <<117, 795, 777>>, <<85, 795, 771>>, <<117, 795, 771>>,
       <<85, 795, 803>>, <<117, 795, 803>>, <<89, 768>>, <<121, 768>>, <<89, 803>>,
       <<121, 803>>, <<89, 777>>, <<121, 777>>, <<89, 771>>, <<121, 771>>,
       <<945, 787>>, <<945, 788>>, <<945, 787, 768>>, <<945, 788, 768>>, <<945, 787, 769>>,
       <<945, 788, 769>>, <<945, 787, 834>>, <<945, 788, 834>>, <<913, 787>>, <<913, 788>>,
       <<913, 787, 768>>, <<913, 788, 768>>, <<913, 787, 769>>, <<913, 788, 769>>, <<913, 787, 834>>,
       <<913, 788, 834>>, <<949, 787>>, <<949, 788>>, <<949, 787, 768>>, <<949, 788, 768>>,
       <<949, 787, 769>>, <<949, 788, 769>>, <<917, 787>>, <<917, 788>>, <<917, 787, 768>>,
       <<917, 788, 768>>, <<917, 787, 769>>, <<917, 788, 769>>, <<951, 787>>, <<951, 788>>,
       <<951, 787, 768>>, <<951, 788, 768>>, <<951, 787, 769>>, <<951, 788, 769>>, <<951, 787, 834>>,
       <<951, 788, 834>>, <<919, 787>>, <<919, 788>>, <<919, 787, 768>>, <<919, 788, 768>>,
       <<919, 787, 769>>, <<919, 788, 769>>, <<919, 787, 834>>, <<919, 788, 834>>, <<953, 787>>,
       <<953, 788>>, <<953, 787, 768>>, <<953, 788, 768>>, <<953, 787, 769>>, <<953, 788, 769>>,
       <<953, 787, 834>>, <<953, 788, 834>>, <<921, 787>>, <<921, 788>>, <<921, 787, 768>>,
       <<921, 788, 768>>, <<921, 787, 769>>, <<921, 788, 769>>, <<921, 787, 834>>, <<921, 788, 834>>,
       <<959, 787>>, <<959, 788>>, <<959, 787, 768>>, <<959, 788, 768>>, <<959, 787, 769>>,
       <<959, 788, 769>>, <<927, 787>>, <<927, 788>>, <<927, 787, 768>>, <<927, 788, 768>>,
       <<927, 787, 769>>, <<927, 788, 769>>, <<965, 787>>, <<965, 788>>, <<965, 787, 768>>,
       <<965, 788, 768>>, <<965, 787, 769>>, <<965, 788, 769>>, <<965, 787, 834>>, <<965, 788, 834>>,
       <<933, 788>>, <<933, 788, 768>>, <<933, 788, 769>>, <<933, 788, 834>>, <<969, 787>>,
       <<969, 788>>, <<969, 787, 768>>, <<969, 788, 768>>, <<969, 787, 769>>, <<969, 788, 769>>,
       <<969, 787, 834>>, <<969, 788, 834>>, <<937, 787>>, <<937, 788>>, <<937, 787, 768>>,
       <<937, 788, 768>>, <<937, 787, 769>>, <<937, 788, 769>>, <<937, 787, 834>>, <<937, 788, 834>>,
       <<945, 768>>, <<945, 769>>, <<949, 768>>, <<949, 769>>, <<951, 768>>,
       <<951, 769>>, <<953, 768>>, <<953, 769>>, <<959, 768>>, <<959, 769>>,
       <<965, 768>>, <<965, 769>>, <<969, 768>>, <<969, 769>>, <<945, 787, 837>>,
       <<945, 788, 837>>, <<945, 787, 768, 837>>, <<945, 788, 768, 837>>, <<945, 787, 769, 837>>, <<945, 788, 769, 837>>,
       <<945, 787, 834, 837>>, <<945, 788, 834, 837>>, <<913, 787, 837>>, <<913, 788, 837>>, <<913, 787, 768, 837>>,
       <<913, 788, 768, 837>>, <<913, 787, 769, 837>>, <<913, 788, 769, 837>>, <<913, 787, 834, 837>>, <<913, 788, 834, 837>>,
       <<951, 787, 837>>, <<951, 788, 837>>, <<951, 787, 768, 837>>, <<951, 788, 768, 837>>, <<951, 787, 769, 837>>,
       <<951, 788, 769, 837>>, <<951, 787, 834, 837>>, <<951, 788, 834, 837>>, <<919, 787, 837>>, <<919, 788, 837>>,
       <<919, 787, 768, 837>>, <<919, 788, 768, 837>>, <<919, 787, 769, 837>>, <<919, 788, 769, 837>>, <<919, 787, 834, 837>>,
       <<919, 788, 834, 837>>, <<969, 787, 837>>, <<969, 788, 837>>, <<969, 787, 768, 837>>, <<969, 788, 768, 837>>,
       <<969, 787, 769, 837>>, <<969, 788, 769, 837>>, <<969, 787, 834, 837>>, <<969, 788, 834, 837>>, <<937, 787, 837>>,
       <<937, 788, 837>>, <<937, 787, 768, 837>>, <<937, 788, 768, 837>>, <<937, 787, 769, 837>>, <<937, 788, 769, 837>>,
       <<937, 787, 834, 837>>, <<937, 788, 834, 837>>, <<945, 774>>, <<945, 772>>, <<945, 768, 837>>,
       <<945, 837>>, <<945, 769, 837>>, <<945, 834>>, <<945, 834, 837>>, <<913, 774>>,
       <<913, 772>>, <<913, 768>>, <<913, 769>>, <<913, 837>>, <<953>>,
       <<168, 834>>, <<951, 768, 837>>, <<951, 837>>, <<951, 769, 837>>, <<951, 834>>,
       <<951, 834, 837>>, <<917, 768>>, <<917, 769>>, <<919, 768>>, <<919, 769>>,
       <<919, 837>>, <<8127, 768>>, <<8127, 769>>, <<8127, 834>>, <<953, 774>>,
       <<953, 772>>, <<953, 776, 768>>, <<953, 776, 769>>, <<953, 834>>, <<953, 776, 834>>,
       <<921, 774>>, <<921, 772>>, <<921, 768>>, <<921, 769>>, <<8190, 768>>,
       <<8190, 769>>, <<8190, 834>>, <<965, 774>>, <<965, 772>>, <<965, 776, 768>>,
       <<965, 776, 769>>, <<961, 787>>, <<961, 788>>, <<965, 834>>, <<965, 776, 834>>,
       <<933, 774>>, <<933, 772>>, <<933, 768>>, <<933, 769>>, <<929, 788>>,
       <<168, 768>>, <<168, 769>>, <<96>>, <<969, 768, 837>>, <<969, 837>>,
       <<969, 769, 837>>, <<969, 834>>, <<969, 834, 837>>, <<927, 768>>, <<927, 769>>,
       <<937, 768>>, <<937, 769>>, <<937, 837>>, <<180>>, <<8194>>,
       <<8195>>, <<937>>, <<75>>, <<65, 778>>, <<8592, 824>>,
       <<8594, 824>>, <<8596, 824>>, <<8656, 824>>, <<8660, 824>>, <<8658, 824>>,
       <<8707, 824>>, <<8712, 824>>, <<8715, 824>>, <<8739, 824>>, <<8741, 824>>,
       <<8764, 824>>, <<8771, 824>>, <<8773, 824>>, <<8776, 824>>, <<61, 824>>,
       <<8801, 824>>, <<8781, 824>>, <<60, 824>>, <<62, 824>>, <<8804, 824>>,
       <<8805, 824>>, <<8818, 824>>, <<8819, 824>>, <<8822, 824>>, <<8823, 824>>,
       <<8826, 824>>, <<8827, 824>>, <<8834, 824>>, <<8835, 824>>, <<8838, 824>>,
       <<8839, 824>>, <<8866, 824>>, <<8872, 824>>, <<8873, 824>>, <<8875, 824>>,
       <<8828, 824>>, <<8829, 824>>, <<8849, 824>>, <<8850, 824>>, <<8882, 824>>,
       <<8883, 824>>, <<8884, 824>>, <<8885, 824>>, <<12296>>, <<12297>>,
       <<10973, 824>>, <<12363, 12441>>, <<12365, 12441>>, <<12367, 12441>>, <<12369, 12441>>,
       <<12371, 12441>>, <<12373, 12441>>, <<12375, 12441>>, <<12377, 12441>>, <<12379, 12441>>,
       <<12381, 12441>>, <<12383, 12441>>, <<12385, 12441>>, <<12388, 12441>>, <<12390, 12441>>,
       <<12392, 12441>>, <<12399, 12441>>, <<12399, 12442>>, <<12402, 12441>>, <<12402, 12442>>,
       <<12405, 12441>>, <<12405, 12442>>, <<12408, 12441>>, <<12408, 12442>>, <<12411, 12441>>,
       <<12411, 12442>>, <<12358, 12441>>, <<12445, 12441>>, <<12459, 12441>>, <<12461, 12441>>,
       <<12463, 12441>>, <<12465, 12441>>, <<12467, 12441>>, <<12469, 12441>>, <<12471, 12441>>,
       <<12473, 12441>>, <<12475, 12441>>, <<12477, 12441>>, <<12479, 12441>>, <<12481, 12441>>,
       <<12484, 12441>>, <<12486, 12441>>, <<12488, 12441>>, <<12495, 12441>>, <<12495, 12442>>,
       <<12498, 12441>>, <<12498, 12442>>, <<12501, 12441>>, <<12501, 12442>>, <<12504, 12441>>,
       <<12504, 12442>>, <<12507, 12441>>, <<12507, 12442>>, <<12454, 12441>>, <<12527, 12441>>,
       <<12528, 12441>>, <<12529, 12441>>, <<12530, 12441>>, <<12541, 12441>>, <<35912>>,
       <<26356>>, <<36554>>, <<36040>>, <<28369>>, <<20018>>,
       <<21477>>, <<40860>>, <<40860>>, <<22865>>, <<37329>>,
       <<21895>>, <<22856>>, <<25078>>, <<30313>>, <<32645>>,
       <<34367>>, <<34746>>, <<35064>>, <<37007>>, <<27138>>,
       <<27931>>, <<28889>>, <<29662>>, <<33853>>, <<37226>>,
       <<39409>>, <<20098>>, <<21365>>, <<27396>>, <<29211>>,
       <<34349>>, <<40478>>, <<23888>>, <<28651>>, <<34253>>,
       <<35172>>, <<25289>>, <<33240>>, <<34847>>, <<24266>>,
       <<26391>>, <<28010>>, <<29436>>, <<37070>>, <<20358>>,
       <<20919>>, <<21214>>, <<25796>>, <<27347>>, <<29200>>,
       <<30439>>, <<32769>>, <<34310>>, <<34396>>, <<36335>>,
       <<38706>>, <<39791>>, <<40442>>, <<30860>>, <<31103>>,
       <<32160>>, <<33737>>, <<37636>>, <<40575>>, <<35542>>,
       <<22751>>, <<24324>>, <<31840>>, <<32894>>, <<29282>>,
       <<30922>>, <<36034>>, <<38647>>, <<22744>>, <<23650>>,
       <<27155>>, <<28122>>, <<28431>>, <<32047>>, <<32311>>,
       <<38475>>, <<21202>>, <<32907>>, <<20956>>, <<20940>>,
       <<31260>>, <<32190>>, <<33777>>, <<38517>>, <<35712>>,
       <<25295>>, <<27138>>, <<35582>>, <<20025>>, <<23527>>,
       <<24594>>, <<29575>>, <<30064>>, <<21271>>, <<30971>>,
       <<20415>>, <<24489>>, <<19981>>, <<27852>>, <<25976>>,
       <<32034>>, <<21443>>, <<22622>>, <<30465>>, <<33865>>,
       <<35498>>, <<27578>>, <<36784>>, <<27784>>, <<25342>>,
       <<33509>>, <<25504>>, <<30053>>, <<20142>>, <<20841>>,
       <<20937>>, <<26753>>, <<31975>>, <<33391>>, <<35538>>,
       <<37327>>, <<21237>>, <<21570>>, <<22899>>, <<24300>>,
       <<26053>>, <<28670>>, <<31018>>, <<38317>>, <<39530>>,
       <<40599>>, <<40654>>, <<21147>>, <<26310>>, <<27511>>,
       <<36706>>, <<24180>>, <<24976>>, <<25088>>, <<25754>>,
       <<28451>>, <<29001>>, <<29833>>, <<31178>>, <<32244>>,
       <<32879>>, <<36646>>, <<34030>>, <<36899>>, <<37706>>,
       <<21015>>, <<21155>>, <<21693>>, <<28872>>, <<35010>>,
       <<35498>>, <<24265>>, <<24565>>, <<25467>>, <<27566>>,
       <<31806>>, <<29557>>, <<20196>>, <<22265>>, <<23527>>,
       <<23994>>, <<24604>>, <<29618>>, <<29801>>, <<32666>>,
       <<32838>>, <<37428>>, <<38646>>, <<38728>>, <<38936>>,
       <<20363>>, <<31150>>, <<37300>>, <<38584>>, <<24801>>,
       <<20102>>, <<20698>>, <<23534>>, <<23615>>, <<26009>>,
       <<27138>>, <<29134>>, <<30274>>, <<34044>>, <<36988>>,
       <<40845>>, <<26248>>, <<38446>>, <<21129>>, <<26491>>,
       <<26611>>, <<27969>>, <<28316>>, <<29705>>, <<30041>>,
       <<30827>>, <<32016>>, <<39006>>, <<20845>>, <<25134>>,
       <<38520>>, <<20523>>, <<23833>>, <<28138>>, <<36650>>,
       <<24459>>, <<24900>>, <<26647>>, <<29575>>, <<38534>>,
       <<21033>>, <<21519>>, <<23653>>, <<26131>>, <<26446>>,
       <<26792>>, <<27877>>, <<29702>>, <<30178>>, <<32633>>,
       <<35023>>, <<35041>>, <<37324>>, <<38626>>, <<21311>>,
       <<28346>>, <<21533>>, <<29136>>, <<29848>>, <<34298>>,
       <<38563>>, <<40023>>, <<40607>>, <<26519>>, <<28107>>,
       <<33256>>, <<31435>>, <<31520>>, <<31890>>, <<29376>>,
       <<28825>>, <<35672>>, <<20160>>, <<33590>>, <<21050>>,
       <<20999>>, <<24230>>, <<25299>>, <<31958>>, <<23429>>,
       <<27934>>, <<26292>>, <<36667>>, <<34892>>, <<38477>>,
       <<35211>>, <<24275>>, <<20800>>, <<21952>>, <<22618>>,
       <<26228>>, <<20958>>, <<29482>>, <<30410>>, <<31036>>,
       <<31070>>, <<31077>>, <<31119>>, <<38742>>, <<31934>>,
       <<32701>>, <<34322>>, <<35576>>, <<36920>>, <<37117>>,
       <<39151>>, <<39164>>, <<39208>>, <<40372>>, <<37086>>,
       <<38583>>, <<20398>>, <<20711>>, <<20813>>, <<21193>>,
       <<21220>>, <<21329>>, <<21917>>, <<22022>>, <<22120>>,
       <<22592>>, <<22696>>, <<23652>>, <<23662>>, <<24724>>,
       <<24936>>, <<24974>>, <<25074>>, <<25935>>, <<26082>>,
       <<26257>>, <<26757>>, <<28023>>, <<28186>>, <<28450>>,
       <<29038>>, <<29227>>, <<29730>>, <<30865>>, <<31038>>,
       <<31049>>, <<31048>>, <<31056>>, <<31062>>, <<31069>>,
       <<31117>>, <<31118>>, <<31296>>, <<31361>>, <<31680>>,
       <<32244>>, <<32265>>, <<32321>>, <<32626>>, <<32773>>,
       <<33261>>, <<33401>>, <<33401>>, <<33879>>, <<35088>>,
       <<35222>>, <<35585>>, <<35641>>, <<36051>>, <<36104>>,
       <<36790>>, <<36920>>, <<38627>>, <<38911>>, <<38971>>,
       <<24693>>, <<148206>>, <<33304>>, <<20006>>, <<20917>>,
       <<20840>>, <<20352>>, <<20805>>, <<20864>>, <<21191>>,
       <<21242>>, <<21917>>, <<21845>>, <<21913>>, <<21986>>,
       <<22618>>, <<22707>>, <<22852>>, <<22868>>, <<23138>>,
       <<23336>>, <<24274>>, <<24281>>, <<24425>>, <<24493>>,
       <<24792>>, <<24910>>, <<24840>>, <<24974>>, <<24928>>,
       <<25074>>, <<25140>>, <<25540>>, <<25628>>, <<25682>>,
       <<25942>>, <<26228>>, <<26391>>, <<26395>>, <<26454>>,
       <<27513>>, <<27578>>, <<27969>>, <<28379>>, <<28363>>,
       <<28450>>, <<28702>>, <<29038>>, <<30631>>, <<29237>>,
       <<29359>>, <<29482>>, <<29809>>, <<29958>>, <<30011>>,
       <<30237>>, <<30239>>, <<30410>>, <<30427>>, <<30452>>,
       <<30538>>, <<30528>>, <<30924>>, <<31409>>, <<31680>>,
       <<31867>>, <<32091>>, <<32244>>, <<32574>>, <<32773>>,
       <<33618>>, <<33775>>, <<34681>>, <<35137>>, <<35206>>,
       <<35222>>, <<35519>>, <<35576>>, <<35531>>, <<35585>>,
       <<35582>>, <<35565>>, <<35641>>, <<35722>>, <<36104>>,
       <<36664>>, <<36978>>, <<37273>>, <<37494>>, <<38524>>,
       <<38627>>, <<38742>>, <<38875>>, <<38911>>, <<38923>>,
       <<38971>>, <<39698>>, <<40860>>, <<141386>>, <<141380>>,
       <<144341>>, <<15261>>, <<16408>>, <<16441>>, <<152137>>,
       <<154832>>, <<163539>>, <<40771>>, <<40846>>, <<1497, 1460>>,
       <<1522, 1463>>, <<1513, 1473>>, <<1513, 1474>>, <<1513, 1468, 1473>>, <<1513, 1468, 1474>>,
       <<1488, 1463>>, <<1488, 1464>>, <<1488, 1468>>, <<1489, 1468>>, <<1490, 1468>>,
       <<1491, 1468>>, <<1492, 1468>>, <<1493, 1468>>, <<1494, 1468>>, <<1496, 1468>>,
       <<1497, 1468>>, <<1498, 1468>>, <<1499, 1468>>, <<1500, 1468>>, <<1502, 1468>>,
       <<1504, 1468>>, <<1505, 1468>>, <<1507, 1468>>, <<1508, 1468>>, <<1510, 1468>>,
       <<1511, 1468>>, <<1512, 1468>>, <<1513, 1468>>, <<1514, 1468>>, <<1493, 1465>>,
       <<1489, 1471>>, <<1499, 1471>>, <<1508, 1471>>, <<69785, 69818>>, <<69787, 69818>>,
       <<69797, 69818>>, <<69937, 69927>>, <<69938, 69927>>, <<70471, 70462>>, <<70471, 70487>>,
       <<70841, 70842>>, <<70841, 70832>>, <<70841, 70845>>, <<71096, 71087>>, <<71097, 71087>>,
       <<71989, 71984>>, <<119127, 119141>>, <<119128, 119141>>, <<119128, 119141, 119150>>, <<119128, 119141, 119151>>,
       <<119128, 119141, 119152>>, <<119128, 119141, 119153>>, <<119128, 119141, 119154>>, <<119225, 119141>>, <<119226, 119141>>,
       <<119225, 119141, 119150>>, <<119226, 119141, 119150>>, <<119225, 119141, 119151>>, <<119226, 119141, 119151>>, <<20029>>,
       <<20024>>, <<20033>>, <<131362>>, <<20320>>, <<20398>>,
       <<20411>>, <<20482>>, <<20602>>, <<20633>>, <<20711>>,
       <<20687>>, <<13470>>, <<132666>>, <<20813>>, <<20820>>,
       <<20836>>, <<20855>>, <<132380>>, <<13497>>, <<20839>>,
       <<20877>>, <<132427>>, <<20887>>, <<20900>>, <<20172>>,
       <<20908>>, <<20917>>, <<168415>>, <<20981>>, <<20995>>,
       <<13535>>, <<21051>>, <<21062>>, <<21106>>, <<21111>>,
       <<13589>>, <<21191>>, <<21193>>, <<21220>>, <<21242>>,
       <<21253>>, <<21254>>, <<21271>>, <<21321>>, <<21329>>,
       <<21338>>, <<21363>>, <<21373>>, <<21375>>, <<21375>>,
       <<21375>>, <<133676>>, <<28784>>, <<21450>>, <<21471>>,
       <<133987>>, <<21483>>, <<21489>>, <<21510>>, <<21662>>,
       <<21560>>, <<21576>>, <<21608>>, <<21666>>, <<21750>>,
       <<21776>>, <<21843>>, <<21859>>, <<21892>>, <<21892>>,
       <<21913>>, <<21931>>, <<21939>>, <<21954>>, <<22294>>,
       <<22022>>, <<22295>>, <<22097>>, <<22132>>, <<20999>>,
       <<22766>>, <<22478>>, <<22516>>, <<22541>>, <<22411>>,
       <<22578>>, <<22577>>, <<22700>>, <<136420>>, <<22770>>,
       <<22775>>, <<22790>>, <<22810>>, <<22818>>, <<22882>>,
       <<136872>>, <<136938>>, <<23020>>, <<23067>>, <<23079>>,
       <<23000>>, <<23142>>, <<14062>>, <<14076>>, <<23304>>,
       <<23358>>, <<23358>>, <<137672>>, <<23491>>, <<23512>>,
       <<23527>>, <<23539>>, <<138008>>, <<23551>>, <<23558>>,
       <<24403>>, <<23586>>, <<14209>>, <<23648>>, <<23662>>,
       <<23744>>, <<23693>>, <<138724>>, <<23875>>, <<138726>>,
       <<23918>>, <<23915>>, <<23932>>, <<24033>>, <<24034>>,
       <<14383>>, <<24061>>, <<24104>>, <<24125>>, <<24169>>,
       <<14434>>, <<139651>>, <<14460>>, <<24240>>, <<24243>>,
       <<24246>>, <<24266>>, <<172946>>, <<24318>>, <<140081>>,
       <<140081>>, <<33281>>, <<24354>>, <<24354>>, <<14535>>,
       <<144056>>, <<156122>>, <<24418>>, <<24427>>, <<14563>>,
       <<24474>>, <<24525>>, <<24535>>, <<24569>>, <<24705>>,
       <<14650>>, <<14620>>, <<24724>>, <<141012>>, <<24775>>,
       <<24904>>, <<24908>>, <<24910>>, <<24908>>, <<24954>>,
       <<24974>>, <<25010>>, <<24996>>, <<25007>>, <<25054>>,
       <<25074>>, <<25078>>, <<25104>>, <<25115>>, <<25181>>,
       <<25265>>, <<25300>>, <<25424>>, <<142092>>, <<25405>>,
       <<25340>>, <<25448>>, <<25475>>, <<25572>>, <<142321>>,
       <<25634>>, <<25541>>, <<25513>>, <<14894>>, <<25705>>,
       <<25726>>, <<25757>>, <<25719>>, <<14956>>, <<25935>>,
       <<25964>>, <<143370>>, <<26083>>, <<26360>>, <<26185>>,
       <<15129>>, <<26257>>, <<15112>>, <<15076>>, <<20882>>,
       <<20885>>, <<26368>>, <<26268>>, <<32941>>, <<17369>>,
       <<26391>>, <<26395>>, <<26401>>, <<26462>>, <<26451>>,
       <<144323>>, <<15177>>, <<26618>>, <<26501>>, <<26706>>,
       <<26757>>, <<144493>>, <<26766>>, <<26655>>, <<26900>>,
       <<15261>>, <<26946>>, <<27043>>, <<27114>>, <<27304>>,
       <<145059>>, <<27355>>, <<15384>>, <<27425>>, <<145575>>,
       <<27476>>, <<15438>>, <<27506>>, <<27551>>, <<27578>>,
       <<27579>>, <<146061>>, <<138507>>, <<146170>>, <<27726>>,
       <<146620>>, <<27839>>, <<27853>>, <<27751>>, <<27926>>,
       <<27966>>, <<28023>>, <<27969>>, <<28009>>, <<28024>>,
       <<28037>>, <<146718>>, <<27956>>, <<28207>>, <<28270>>,
       <<15667>>, <<28363>>, <<28359>>, <<147153>>, <<28153>>,
       <<28526>>, <<147294>>, <<147342>>, <<28614>>, <<28729>>,
       <<28702>>, <<28699>>, <<15766>>, <<28746>>, <<28797>>,
       <<28791>>, <<28845>>, <<132389>>, <<28997>>, <<148067>>,
       <<29084>>, <<148395>>, <<29224>>, <<29237>>, <<29264>>,
       <<149000>>, <<29312>>, <<29333>>, <<149301>>, <<149524>>,
       <<29562>>, <<29579>>, <<16044>>, <<29605>>, <<16056>>,
       <<16056>>, <<29767>>, <<29788>>, <<29809>>, <<29829>>,
       <<29898>>, <<16155>>, <<29988>>, <<150582>>, <<30014>>,
       <<150674>>, <<30064>>, <<139679>>, <<30224>>, <<151457>>,
       <<151480>>, <<151620>>, <<16380>>, <<16392>>, <<30452>>,
       <<151795>>, <<151794>>, <<151833>>, <<151859>>, <<30494>>,
       <<30495>>, <<30495>>, <<30538>>, <<16441>>, <<30603>>,
       <<16454>>, <<16534>>, <<152605>>, <<30798>>, <<30860>>,
       <<30924>>, <<16611>>, <<153126>>, <<31062>>, <<153242>>,
       <<153285>>, <<31119>>, <<31211>>, <<16687>>, <<31296>>,
       <<31306>>, <<31311>>, <<153980>>, <<154279>>, <<154279>>,
       <<31470>>, <<16898>>, <<154539>>, <<31686>>, <<31689>>,
       <<16935>>, <<154752>>, <<31954>>, <<17056>>, <<31976>>,
       <<31971>>, <<32000>>, <<155526>>, <<32099>>, <<17153>>,
       <<32199>>, <<32258>>, <<32325>>, <<17204>>, <<156200>>,
       <<156231>>, <<17241>>, <<156377>>, <<32634>>, <<156478>>,
       <<32661>>, <<32762>>, <<32773>>, <<156890>>, <<156963>>,
       <<32864>>, <<157096>>, <<32880>>, <<144223>>, <<17365>>,
       <<32946>>, <<33027>>, <<17419>>, <<33086>>, <<23221>>,
       <<157607>>, <<157621>>, <<144275>>, <<144284>>, <<33281>>,
       <<33284>>, <<36766>>, <<17515>>, <<33425>>, <<33419>>,
       <<33437>>, <<21171>>, <<33457>>, <<33459>>, <<33469>>,
       <<33510>>, <<158524>>, <<33509>>, <<33565>>, <<33635>>,
       <<33709>>, <<33571>>, <<33725>>, <<33767>>, <<33879>>,
       <<33619>>, <<33738>>, <<33740>>, <<33756>>, <<158774>>,
       <<159083>>, <<158933>>, <<17707>>, <<34033>>, <<34035>>,
       <<34070>>, <<160714>>, <<34148>>, <<159532>>, <<17757>>,
       <<17761>>, <<159665>>, <<159954>>, <<17771>>, <<34384>>,
       <<34396>>, <<34407>>, <<34409>>, <<34473>>, <<34440>>,
       <<34574>>, <<34530>>, <<34681>>, <<34600>>, <<34667>>,
       <<34694>>, <<17879>>, <<34785>>, <<34817>>, <<17913>>,
       <<34912>>, <<34915>>, <<161383>>, <<35031>>, <<35038>>,
       <<17973>>, <<35066>>, <<13499>>, <<161966>>, <<162150>>,
       <<18110>>, <<18119>>, <<35488>>, <<35565>>, <<35722>>,
       <<35925>>, <<162984>>, <<36011>>, <<36033>>, <<36123>>,
       <<36215>>, <<163631>>, <<133124>>, <<36299>>, <<36284>>,
       <<36336>>, <<133342>>, <<36564>>, <<36664>>, <<165330>>,
       <<165357>>, <<37012>>, <<37105>>, <<37137>>, <<165678>>,
       <<37147>>, <<37432>>, <<37591>>, <<37592>>, <<37500>>,
       <<37881>>, <<37909>>, <<166906>>, <<38283>>, <<18837>>,
       <<38327>>, <<167287>>, <<18918>>, <<38595>>, <<23986>>,
       <<38691>>, <<168261>>, <<168474>>, <<19054>>, <<19062>>,
       <<38880>>, <<168970>>, <<19122>>, <<169110>>, <<38923>>,
       <<38923>>, <<38953>>, <<169398>>, <<39138>>, <<19251>>,
       <<39209>>, <<39335>>, <<39362>>, <<39422>>, <<19406>>,
       <<170800>>, <<39698>>, <<40000>>, <<40189>>, <<19662>>,
       <<19693>>, <<40295>>, <<172238>>, <<19704>>, <<172293>>,
       <<172558>>, <<172689>>, <<40635>>, <<19798>>, <<40697>>,
       <<40702>>, <<40709>>, <<40719>>, <<40726>>, <<40763>>,
       <<173568>> >>

\* the lower-case mappings to a single rune: first rune, last rune, step,
\* distance to the lower-case rune
LowerRanges ==
    << <<65, 90, 1, 32>>, <<192, 214, 1, 32>>, <<216, 222, 1, 32>>, <<256, 302, 2, 1>>,
       <<306, 310, 2, 1>>, <<313, 327, 2, 1>>, <<330, 374, 2, 1>>, <<376, 376, 2, -121>>,
       <<377, 381, 2, 1>>, <<385, 385, 2, 210>>, <<386, 388, 2, 1>>, <<390, 390, 2, 206>>,
       <<391, 391, 2, 1>>, <<393, 394, 1, 205>>, <<395, 395, 2, 1>>, <<398, 398, 2, 79>>,
       <<399, 399, 2, 202>>, <<400, 400, 2, 203>>, <<401, 401, 2, 1>>, <<403, 403, 2, 205>>,
       <<404, 404, 2, 207>>, <<406, 406, 2, 211>>, <<407, 407, 2, 209>>, <<408, 408, 2, 1>>,
       <<412, 412, 2, 211>>, <<413, 413, 2, 213>>, <<415, 415, 2, 214>>, <<416, 420, 2, 1>>,
       <<422, 422, 2, 218>>, <<423, 423, 2, 1>>, <<425, 425, 2, 218>>, <<428, 428, 2, 1>>,
       <<430, 430, 2, 218>>, <<431, 431, 2, 1>>, <<433, 434, 1, 217>>, <<435, 437, 2, 1>>,
       <<439, 439, 2, 219>>, <<440, 440, 2, 1>>, <<444, 444, 2, 1>>, <<452, 452, 2, 2>>,
       <<453, 453, 2, 1>>, <<455, 455, 2, 2>>, <<456, 456, 2, 1>>, <<458, 458, 2, 2>>,
       <<459, 475, 2, 1>>, <<478, 494, 2, 1>>, <<497, 497, 2, 2>>, <<498, 500, 2, 1>>,
       <<502, 502, 2, -97>>, <<503, 503, 2, -56>>, <<504, 542, 2, 1>>, <<544, 544, 2, -130>>,
       <<546, 562, 2, 1>>, <<570, 570, 2, 10795>>, <<571, 571, 2, 1>>, <<573, 573, 2, -163>>,
       <<574, 574, 2, 10792>>, <<577, 577, 2, 1>>, <<579, 579, 2, -195>>, <<580, 580, 2, 69>>,
       <<581, 581, 2, 71>>, <<582, 590, 2, 1>>, <<880, 882, 2, 1>>, <<886, 886, 2, 1>>,
       <<895, 895, 2, 116>>, <<902, 902, 2, 38>>, <<904, 906, 1, 37>>, <<908, 908, 2, 64>>,
       <<910, 911, 1, 63>>, <<913, 929, 1, 32>>, <<931, 939, 1, 32>>, <<975, 975, 2, 8>>,
       <<984, 1006, 2, 1>>, <<1012, 1012, 2, -60>>, <<1015, 1015, 2, 1>>, <<1017, 1017, 2, -7>>,
       <<1018, 1018, 2, 1>>, <<1021, 1023, 1, -130>>, <<1024, 1039, 1, 80>>, <<1040, 1071, 1, 32>>,
       <<1120, 1152, 2, 1>>, <<1162, 1214, 2, 1>>, <<1216, 1216, 2, 15>>, <<1217, 1229, 2, 1>>,
       <<1232, 1326, 2, 1>>, <<1329, 1366, 1, 48>>, <<4256, 4293, 1, 7264>>, <<4295, 4295, 2, 7264>>,
       <<4301, 4301, 2, 7264>>, <<5024, 5103, 1, 38864>>, <<5104, 5109, 1, 8>>, <<7312, 7354, 1, -3008>>,
       <<7357, 7359, 1, -3008>>, <<7680, 7828, 2, 1>>, <<7838, 7838, 2, -7615>>, <<7840, 7934, 2, 1>>,
       <<7944, 7951, 1, -8>>, <<7960, 7965, 1, -8>>, <<7976, 7983, 1, -8>>, <<7992, 7999, 1, -8>>,
       <<8008, 8013, 1, -8>>, <<8025, 8031, 2, -8>>, <<8040, 8047, 1, -8>>, <<8072, 8079, 1, -8>>,
       <<8088, 8095, 1, -8>>, <<8104, 8111, 1, -8>>, <<8120, 8121, 1, -8>>, <<8122, 8123, 1, -74>>,
       <<8124, 8124, 2, -9>>, <<8136, 8139, 1, -86>>, <<8140, 8140, 2, -9>>, <<8152, 8153, 1, -8>>,
       <<8154, 8155, 1, -100>>, <<8168, 8169, 1, -8>>, <<8170, 8171, 1, -112>>, <<8172, 8172, 2, -7>>,
       <<8184, 8185, 1, -128>>, <<8186, 8187, 1, -126>>, <<8188, 8188, 2, -9>>, <<8486, 8486, 2, -7517>>,
       <<8490, 8490, 2, -8383>>, <<8491, 8491, 2, -8262>>, <<8498, 8498, 2, 28>>, <<8544, 8559, 1, 16>>,
       <<8579, 8579, 2, 1>>, <<9398, 9423, 1, 26>>, <<11264, 11311, 1, 48>>, <<11360, 11360, 2, 1>>,
       <<11362, 11362, 2, -10743>>, <<11363, 11363, 2, -3814>>, <<11364, 11364, 2, -10727>>, <<11367, 11371, 2, 1>>,
       <<11373, 11373, 2, -10780>>, <<11374, 11374, 2, -10749>>, <<11375, 11375, 2, -10783>>, <<11376, 11376, 2, -10782>>,
       <<11378, 11378, 2, 1>>, <<11381, 11381, 2, 1>>, <<11390, 11391, 1, -10815>>, <<11392, 11490, 2, 1>>,
       <<11499, 11501, 2, 1>>, <<11506, 11506, 2, 1>>, <<42560, 42604, 2, 1>>, <<42624, 42650, 2, 1>>,
       <<42786, 42798, 2, 1>>, <<42802, 42862, 2, 1>>, <<42873, 42875, 2, 1>>, <<42877, 42877, 2, -35332>>,
       <<42878, 42886, 2, 1>>, <<42891, 42891, 2, 1>>, <<42893, 42893, 2, -42280>>, <<42896, 42898, 2, 1>>,
       <<42902, 42920, 2, 1>>, <<42922, 42922, 2, -42308>>, <<42923, 42923, 2, -42319>>, <<42924, 42924, 2, -42315>>,
       <<42925, 42925, 2, -42305>>, <<42926, 42926, 2, -42308>>, <<42928, 42928, 2, -42258>>, <<42929, 42929, 2, -42282>>,
       <<42930, 42930, 2, -42261>>, <<42931, 42931, 2, 928>>, <<42932, 42946, 2, 1>>, <<42948, 42948, 2, -48>>,
       <<42949, 42949, 2, -42307>>, <<42950, 42950, 2, -35384>>, <<42951, 42953, 2, 1>>, <<42960, 42960, 2, 1>>,
       <<42966, 42968, 2, 1>>, <<42997, 42997, 2, 1>>, <<65313, 65338, 1, 32>>, <<66560, 66599, 1, 40>>,
       <<66736, 66771, 1, 40>>, <<66928, 66938, 1, 39>>, <<66940, 66954, 1, 39>>, <<66956, 66962, 1, 39>>,
       <<66964, 66965, 1, 39>>, <<68736, 68786, 1, 64>>, <<71840, 71871, 1, 32>>, <<93760, 93791, 1, 32>>,
       <<125184, 125217, 1, 34>> >>

\* the ranges of the cased runes
CasedRanges ==
    << <<65, 90>>, <<97, 122>>, <<170, 170>>, <<181, 181>>, <<186, 186>>, <<192, 214>>,
       <<216, 246>>, <<248, 442>>, <<444, 447>>, <<452, 659>>, <<661, 696>>, <<704, 705>>,
       <<736, 740>>, <<837, 837>>, <<880, 883>>, <<886, 887>>, <<890, 893>>, <<895, 895>>,
       <<902, 902>>, <<904, 906>>, <<908, 908>>, <<910, 929>>, <<931, 1013>>, <<1015, 1153>>,
       <<1162, 1327>>, <<1329, 1366>>, <<1376, 1416>>, <<4256, 4293>>, <<4295, 4295>>, <<4301, 4301>>,
       <<4304, 4346>>, <<4349, 4351>>, <<5024, 5109>>, <<5112, 5117>>, <<7296, 7304>>, <<7312, 7354>>,
       <<7357, 7359>>, <<7424, 7615>>, <<7680, 7957>>, <<7960, 7965>>, <<7968, 8005>>, <<8008, 8013>>,
       <<8016, 8023>>, <<8025, 8025>>, <<8027, 8027>>, <<8029, 8029>>, <<8031, 8061>>, <<8064, 8116>>,
       <<8118, 8124>>, <<8126, 8126>>, <<8130, 8132>>, <<8134, 8140>>, <<8144, 8147>>, <<8150, 8155>>,
       <<8160, 8172>>, <<8178, 8180>>, <<8182, 8188>>, <<8305, 8305>>, <<8319, 8319>>, <<8336, 8348>>,
       <<8450, 8450>>, <<8455, 8455>>, <<8458, 8467>>, <<8469, 8469>>, <<8473, 8477>>, <<8484, 8484>>,
       <<8486, 8486>>, <<8488, 8488>>, <<8490, 8493>>, <<8495, 8500>>, <<8505, 8505>>, <<8508, 8511>>,
       <<8517, 8521>>, <<8526, 8526>>, <<8544, 8575>>, <<8579, 8580>>, <<9398, 9449>>, <<11264, 11492>>,
       <<11499, 11502>>, <<11506, 11507>>, <<11520, 11557>>, <<11559, 11559>>, <<11565, 11565>>, <<42560, 42605>>,
       <<42624, 42653>>, <<42786, 42887>>, <<42891, 42894>>, <<42896, 42954>>, <<42960, 42961>>, <<42963, 42963>>,
       <<42965, 42969>>, <<42997, 42998>>, <<43000, 43002>>, <<43824, 43866>>, <<43868, 43880>>, <<43888, 43967>>,
       <<64256, 64262>>, <<64275, 64279>>, <<65313, 65338>>, <<65345, 65370>>, <<66560, 66639>>, <<66736, 66771>>,
       <<66776, 66811>>, <<66928, 66938>>, <<66940, 66954>>, <<66956, 66962>>, <<66964, 66965>>, <<66967, 66977>>,
       <<66979, 66993>>, <<66995, 67001>>, <<67003, 67004>>, <<67456, 67456>>, <<67459, 67461>>, <<67463, 67504>>,
       <<67506, 67514>>, <<68736, 68786>>, <<68800, 68850>>, <<71840, 71903>>, <<93760, 93823>>, <<119808, 119892>>,
       <<119894, 119964>>, <<119966, 119967>>, <<119970, 119970>>, <<119973, 119974>>, <<119977, 119980>>, <<119982, 119993>>,
       <<119995, 119995>>, <<119997, 120003>>, <<120005, 120069>>, <<120071, 120074>>, <<120077, 120084>>, <<120086, 120092>>,
       <<120094, 120121>>, <<120123, 120126>>, <<120128, 120132>>, <<120134, 120134>>, <<120138, 120144>>, <<120146, 120485>>,
       <<120488, 120512>>, <<120514, 120538>>, <<120540, 120570>>, <<120572, 120596>>, <<120598, 120628>>, <<120630, 120654>>,
       <<120656, 120686>>, <<120688, 120712>>, <<120714, 120744>>, <<120746, 120770>>, <<120772, 120779>>, <<122624, 122633>>,
       <<122635, 122654>>, <<125184, 125251>>, <<127280, 127305>>, <<127312, 127337>>, <<127344, 127369>> >>

\* the ranges of the case-ignorable runes
CaseIgnorableRanges ==
    << <<39, 39>>, <<46, 46>>, <<58, 58>>, <<94, 94>>, <<96, 96>>, <<168, 168>>,
       <<173, 173>>, <<175, 175>>, <<180, 180>>, <<183, 184>>, <<688, 879>>, <<884, 885>>,
       <<890, 890>>, <<900, 901>>, <<903, 903>>, <<1155, 1161>>, <<1369, 1369>>, <<1375, 1375>>,
       <<1425, 1469>>, <<1471, 1471>>, <<1473, 1474>>, <<1476, 1477>>, <<1479, 1479>>, <<1524, 1524>>,
       <<1536, 1541>>, <<1552, 1562>>, <<1564, 1564>>, <<1600, 1600>>, <<1611, 1631>>, <<1648, 1648>>,
       <<1750, 1757>>, <<1759, 1768>>, <<1770, 1773>>, <<1807, 1807>>, <<1809, 1809>>, <<1840, 1866>>,
       <<1958, 1968>>, <<2027, 2037>>, <<2042, 2042>>, <<2045, 2045>>, <<2070, 2093>>, <<2137, 2139>>,
       <<2184, 2184>>, <<2192, 2193>>, <<2200, 2207>>, <<2249, 2306>>, <<2362, 2362>>, <<2364, 2364>>,
       <<2369, 2376>>, <<2381, 2381>>, <<2385, 2391>>, <<2402, 2403>>, <<2417, 2417>>, <<2433, 2433>>,
       <<2492, 2492>>, <<2497, 2500>>, <<2509, 2509>>, <<2530, 2531>>, <<2558, 2558>>, <<2561, 2562>>,
       <<2620, 2620>>, <<2625, 2626>>, <<2631, 2632>>, <<2635, 2637>>, <<2641, 2641>>, <<2672, 2673>>,
       <<2677, 2677>>, <<2689, 2690>>, <<2748, 2748>>, <<2753, 2757>>, <<2759, 2760>>, <<2765, 2765>>,
       <<2786, 2787>>, <<2810, 2815>>, <<2817, 2817>>, <<2876, 2876>>, <<2879, 2879>>, <<2881, 2884>>,
       <<2893, 2893>>, <<2901, 2902>>, <<2914, 2915>>, <<2946, 2946>>, <<3008, 3008>>, <<3021, 3021>>,
       <<3072, 3072>>, <<3076, 3076>>, <<3132, 3132>>, <<3134, 3136>>, <<3142, 3144>>, <<3146, 3149>>,
       <<3157, 3158>>, <<3170, 3171>>, <<3201, 3201>>, <<3260, 3260>>, <<3263, 3263>>, <<3270, 3270>>,
       <<3276, 3277>>, <<3298, 3299>>, <<3328, 3329>>, <<3387, 3388>>, <<3393, 3396>>, <<3405, 3405>>,
       <<3426, 3427>>, <<3457, 3457>>, <<3530, 3530>>, <<3538, 3540>>, <<3542, 3542>>, <<3633, 3633>>,
       <<3636, 3642>>, <<3654, 3662>>, <<3761, 3761>>, <<3764, 3772>>, <<3782, 3782>>, <<3784, 3789>>,
       <<3864, 3865>>, <<3893, 3893>>, <<3895, 3895>>, <<3897, 3897>>, <<3953, 3966>>, <<3968, 3972>>,
       <<3974, 3975>>, <<3981, 3991>>, <<3993, 4028>>, <<4038, 4038>>, <<4141, 4144>>, <<4146, 4151>>,
       <<4153, 4154>>, <<4157, 4158>>, <<4184, 4185>>, <<4190, 4192>>, <<4209, 4212>>, <<4226, 4226>>,
       <<4229, 4230>>, <<4237, 4237>>, <<4253, 4253>>, <<4348, 4348>>, <<4957, 4959>>, <<5906, 5908>>,
       <<5938, 5939>>, <<5970, 5971>>, <<6002, 6003>>, <<6068, 6069>>, <<6071, 6077>>, <<6086, 6086>>,
       <<6089, 6099>>, <<6103, 6103>>, <<6109, 6109>>, <<6155, 6159>>, <<6211, 6211>>, <<6277, 6278>>,
       <<6313, 6313>>, <<6432, 6434>>, <<6439, 6440>>, <<6450, 6450>>, <<6457, 6459>>, <<6679, 6680>>,
       <<6683, 6683>>, <<6742, 6742>>, <<6744, 6750>>, <<6752, 6752>>, <<6754, 6754>>, <<6757, 6764>>,
       <<6771, 6780>>, <<6783, 6783>>, <<6823, 6823>>, <<6832, 6862>>, <<6912, 6915>>, <<6964, 6964>>,
       <<6966, 6970>>, <<6972, 6972>>, <<6978, 6978>>, <<7019, 7027>>, <<7040, 7041>>, <<7074, 7077>>,
       <<7080, 7081>>, <<7083, 7085>>, <<7142, 7142>>, <<7144, 7145>>, <<7149, 7149>>, <<7151, 7153>>,
       <<7212, 7219>>, <<7222, 7223>>, <<7288, 7293>>, <<7376, 7378>>, <<7380, 7392>>, <<7394, 7400>>,
       <<7405, 7405>>, <<7412, 7412>>, <<7416, 7417>>, <<7468, 7530>>, <<7544, 7544>>, <<7579, 7679>>,
       <<8125, 8125>>, <<8127, 8129>>, <<8141, 8143>>, <<8157, 8159>>, <<8173, 8175>>, <<8189, 8190>>,
       <<8203, 8207>>, <<8216, 8217>>, <<8228, 8228>>, <<8231, 8231>>, <<8234, 8238>>, <<8288, 8292>>,
       <<8294, 8303>>, <<8305, 8305>>, <<8319, 8319>>, <<8336, 8348>>, <<8400, 8432>>, <<11388, 11389>>,
       <<11503, 11505>>, <<11631, 11631>>, <<11647, 11647>>, <<11744, 11775>>, <<11823, 11823>>, <<12293, 12293>>,
       <<12330, 12333>>, <<12337, 12341>>, <<12347, 12347>>, <<12441, 12446>>, <<12540, 12542>>, <<40981, 40981>>,
       <<42232, 42237>>, <<42508, 42508>>, <<42607, 42610>>, <<42612, 42621>>, <<42623, 42623>>, <<42652, 42655>>,
       <<42736, 42737>>, <<42752, 42785>>, <<42864, 42864>>, <<42888, 42890>>, <<42994, 42996>>, <<43000, 43001>>,
       <<43010, 43010>>, <<43014, 43014>>, <<43019, 43019>>, <<43045, 43046>>, <<43052, 43052>>, <<43204, 43205>>,
       <<43232, 43249>>, <<43263, 43263>>, <<43302, 43309>>, <<43335, 43345>>, <<43392, 43394>>, <<43443, 43443>>,
       <<43446, 43449>>, <<43452, 43453>>, <<43471, 43471>>, <<43493, 43494>>, <<43561, 43566>>, <<43569, 43570>>,
       <<43573, 43574>>, <<43587, 43587>>, <<43596, 43596>>, <<43632, 43632>>, <<43644, 43644>>, <<43696, 43696>>,
       <<43698, 43700>>, <<43703, 43704>>, <<43710, 43711>>, <<43713, 43713>>, <<43741, 43741>>, <<43756, 43757>>,
       <<43763, 43764>>, <<43766, 43766>>, <<43867, 43871>>, <<43881, 43883>>, <<44005, 44005>>, <<44008, 44008>>,
       <<44013, 44013>>, <<64286, 64286>>, <<64434, 64450>>, <<65024, 65039>>, <<65043, 65043>>, <<65056, 65071>>,
       <<65106, 65106>>, <<65109, 65109>>, <<65279, 65279>>, <<65287, 65287>>, <<65294, 65294>>, <<65306, 65306>>,
       <<65342, 65342>>, <<65344, 65344>>, <<65392, 65392>>, <<65438, 65439>>, <<65507, 65507>>, <<65529, 65531>>,
       <<66045, 66045>>, <<66272, 66272>>, <<66422, 66426>>, <<67456, 67461>>, <<67463, 67504>>, <<67506, 67514>>,
       <<68097, 68099>>, <<68101, 68102>>, <<68108, 68111>>, <<68152, 68154>>, <<68159, 68159>>, <<68325, 68326>>,
       <<68900, 68903>>, <<69291, 69292>>, <<69446, 69456>>, <<69506, 69509>>, <<69633, 69633>>, <<69688, 69702>>,
       <<69744, 69744>>, <<69747, 69748>>, <<69759, 69761>>, <<69811, 69814>>, <<69817, 69818>>, <<69821, 69821>>,
       <<69826, 69826>>, <<69837, 69837>>, <<69888, 69890>>, <<69927, 69931>>, <<69933, 69940>>, <<70003, 70003>>,
       <<70016, 70017>>, <<70070, 70078>>, <<70089, 70092>>, <<70095, 70095>>, <<70191, 70193>>, <<70196, 70196>>,
       <<70198, 70199>>, <<70206, 70206>>, <<70367, 70367>>, <<70371, 70378>>, <<70400, 70401>>, <<70459, 70460>>,
       <<70464, 70464>>, <<70502, 70508>>, <<70512, 70516>>, <<70712, 70719>>, <<70722, 70724>>, <<70726, 70726>>,
       <<70750, 70750>>, <<70835, 70840>>, <<70842, 70842>>, <<70847, 70848>>, <<70850, 70851>>, <<71090, 71093>>,
       <<71100, 71101>>, <<71103, 71104>>, <<71132, 71133>>, <<71219, 71226>>, <<71229, 71229>>, <<71231, 71232>>,
       <<71339, 71339>>, <<71341, 71341>>, <<71344, 71349>>, <<71351, 71351>>, <<71453, 71455>>, <<71458, 71461>>,
       <<71463, 71467>>, <<71727, 71735>>, <<71737, 71738>>, <<71995, 71996>>, <<71998, 71998>>, <<72003, 72003>>,
       <<72148, 72151>>, <<72154, 72155>>, <<72160, 72160>>, <<72193, 72202>>, <<72243, 72248>>, <<72251, 72254>>,
       <<72263, 72263>>, <<72273, 72278>>, <<72281, 72283>>, <<72330, 72342>>, <<72344, 72345>>, <<72752, 72758>>,
       <<72760, 72765>>, <<72767, 72767>>, <<72850, 72871>>, <<72874, 72880>>, <<72882, 72883>>, <<72885, 72886>>,
       <<73009, 73014>>, <<73018, 73018>>, <<73020, 73021>>, <<73023, 73029>>, <<73031, 73031>>, <<73104, 73105>>,
       <<73109, 73109>>, <<73111, 73111>>, <<73459, 73460>>, <<78896, 78904>>, <<92912, 92916>>, <<92976, 92982>>,
       <<92992, 92995>>, <<94031, 94031>>, <<94095, 94111>>, <<94176, 94177>>, <<94179, 94180>>, <<110576, 110579>>,
       <<110581, 110587>>, <<110589, 110590>>, <<113821, 113822>>, <<113824, 113827>>, <<118528, 118573>>, <<118576, 118598>>,
       <<119143, 119145>>, <<119155, 119170>>, <<119173, 119179>>, <<119210, 119213>>, <<119362, 119364>>, <<121344, 121398>>,
       <<121403, 121452>>, <<121461, 121461>>, <<121476, 121476>>, <<121499, 121503>>, <<121505, 121519>>, <<122880, 122886>>,
       <<122888, 122904>>, <<122907, 122913>>, <<122915, 122916>>, <<122918, 122922>>, <<123184, 123197>>, <<123566, 123566>>,
       <<123628, 123631>>, <<125136, 125142>>, <<125252, 125259>>, <<127995, 127999>>, <<917505, 917505>>, <<917536, 917631>>,
       <<917760, 917999>> >>

InRanges(ranges, r) ==
    \E k \in DOMAIN ranges : ranges[k][1] <= r /\ r <= ranges[k][2]

\* filterMn / filterPunct
filterMn == [r \in Int |-> InRanges(MnRanges, r)]

filterPunct == [r \in Int |-> InRanges(PunctRanges, r)]

\* utf8.DecodeRune at the head of s: [r, sz]; sz is 1 and r is -1 for a
\* byte that starts no valid encoding
DecodeRune(s) ==
    LET b == s[1]
        cont(i) == Len(s) >= i /\ s[i] \in 128..191
        two == b \in 194..223 /\ cont(2)
        three == /\ b \in 224..239 /\ cont(2) /\ cont(3)
                 /\ b = 224 => s[2] >= 160
                 /\ b = 237 => s[2] <= 159
        four == /\ b \in 240..244 /\ cont(2) /\ cont(3) /\ cont(4)
                /\ b = 240 => s[2] >= 144
                /\ b = 244 => s[2] <= 143
    IN  IF b < 128 THEN [r |-> b, sz |-> 1]
        ELSE IF two THEN [r |-> (b - 192) * 64 + (s[2] - 128), sz |-> 2]
        ELSE IF three
             THEN [r |-> (b - 224) * 4096 + (s[2] - 128) * 64 + (s[3] - 128), sz |-> 3]
        ELSE IF four
             THEN [r |-> (b - 240) * 262144 + (s[2] - 128) * 4096
                         + (s[3] - 128) * 64 + (s[4] - 128),
                   sz |-> 4]
        ELSE [r |-> -1, sz |-> 1]

\* the encoding of the rune r
EncodeRune(r) ==
    IF r < 128 THEN <<r>>
    ELSE IF r < 2048 THEN <<192 + (r \div 64), 128 + (r % 64)>>
    ELSE IF r < 65536 THEN <<224 + (r \div 4096), 128 + ((r \div 64) % 64), 128 + (r % 64)>>
    ELSE <<240 + (r \div 262144), 128 + ((r \div 4096) % 64),
           128 + ((r \div 64) % 64), 128 + (r % 64)>>

\* the runes of s; a byte that starts no valid encoding is the negative
\* number -1 - byte
RECURSIVE Runes(_)
Runes(s) ==
    IF s = <<>> THEN <<>>
    ELSE The({ <<IF d.r = -1 THEN -1 - s[1] ELSE d.r>>
               \o Runes(SubSeq(s, d.sz + 1, Len(s)))
               : d \in {DecodeRune(s)} })

\* the bytes of the runes rs
RECURSIVE RunesToBytes(_)
RunesToBytes(rs) ==
    IF rs = <<>> THEN <<>>
    ELSE (IF rs[1] < 0 THEN <<0 - rs[1] - 1>> ELSE EncodeRune(rs[1]))
         \o RunesToBytes(Tail(rs))

\* the full canonical decomposition of the rune r
Decompose(r) ==
    IF r < 192 THEN <<r>>
    ELSE IF r >= 44032 /\ r <= 55203
    THEN \* a Hangul syllable: its leading consonant, vowel and trailing
         \* consonant
         LET s == r - 44032
         IN  <<4352 + (s \div 588), 4449 + ((s % 588) \div 28)>>
             \o (IF s % 28 = 0 THEN <<>> ELSE <<4519 + (s % 28)>>)
    ELSE IF \E k \in DOMAIN DecompRunes : DecompRunes[k] = r
    THEN DecompTo[CHOOSE k \in DOMAIN DecompRunes : DecompRunes[k] = r]
    ELSE <<r>>

\* the canonical combining class of the rune r
Ccc(r) ==
    IF r < 768 \/ ~InRanges(CccRanges, r) THEN 0
    ELSE CccRanges[CHOOSE k \in DOMAIN CccRanges :
                      CccRanges[k][1] <= r /\ r <= CccRanges[k][2]][3]

\* the canonical ordering of the runes rs: within a run of runes of a class
\* that is not zero, the runes in the order of their classes, and runes of
\* one class in the order they had
CanonicalOrder(rs) ==
    LET run(cc, i) == {j \in DOMAIN rs : \A k \in Min(i, j)..Max(i, j) : cc[k] # 0}
        before(cc, j, i) == cc[j] < cc[i] \/ (cc[j] = cc[i] /\ j < i)
        place(cc, i) ==
            IF cc[i] = 0 THEN i
            ELSE The({ (CHOOSE j \in r : \A k \in r : j <= k)
                       + Cardinality({j \in r : before(cc, j, i)})
                       : r \in {run(cc, i)} })
    IN  The({ The({ <<>> \o [p \in DOMAIN rs |-> rs[CHOOSE i \in DOMAIN rs : at[i] = p]]
                    : at \in {<<>> \o [i \in DOMAIN rs |-> place(cc, i)]} })
              : cc \in {<<>> \o [i \in DOMAIN rs |-> Ccc(rs[i])]} })

\* the runes whose decomposition begins or ends with non-starters (runes of
\* a canonical combining class that is not zero and runes that combine with
\* the rune before them), as <<first, last, nLead, nTrail>>: the numbers
\* norm.Properties gives for nLeadingNonStarters and nTrailingNonStarters.
\* The counts are taken on the compatibility decomposition, so a starter
\* with no canonical decomposition whose compatibility decomposition begins
\* with a non-starter (the halfwidth voiced sound mark, the compatibility
\* jamo) has nLead = nTrail = 1.  The Hangul syllables are computed.
NonStarterRanges ==
    << <<168, 168, 0, 1>>, <<175, 175, 0, 1>>, <<180, 180, 0, 1>>, <<184, 184, 0, 1>>, <<192, 197, 0, 1>>,
       <<199, 207, 0, 1>>, <<209, 214, 0, 1>>, <<217, 221, 0, 1>>, <<224, 229, 0, 1>>, <<231, 239, 0, 1>>,
       <<241, 246, 0, 1>>, <<249, 253, 0, 1>>, <<255, 271, 0, 1>>, <<274, 293, 0, 1>>, <<296, 304, 0, 1>>,
       <<308, 311, 0, 1>>, <<313, 318, 0, 1>>, <<323, 328, 0, 1>>, <<332, 337, 0, 1>>, <<340, 357, 0, 1>>,
       <<360, 382, 0, 1>>, <<416, 417, 0, 1>>, <<431, 432, 0, 1>>, <<452, 454, 0, 1>>, <<461, 468, 0, 1>>,
       <<469, 476, 0, 2>>, <<478, 481, 0, 2>>, <<482, 483, 0, 1>>, <<486, 491, 0, 1>>, <<492, 493, 0, 2>>,
       <<494, 496, 0, 1>>, <<500, 501, 0, 1>>, <<504, 505, 0, 1>>, <<506, 507, 0, 2>>, <<508, 539, 0, 1>>,
       <<542, 543, 0, 1>>, <<550, 553, 0, 1>>, <<554, 557, 0, 2>>, <<558, 559, 0, 1>>, <<560, 561, 0, 2>>,
       <<562, 563, 0, 1>>, <<728, 733, 0, 1>>, <<768, 835, 1, 1>>, <<836, 836, 2, 2>>, <<837, 846, 1, 1>>,
       <<848, 879, 1, 1>>, <<890, 890, 0, 1>>, <<900, 900, 0, 1>>, <<901, 901, 0, 2>>, <<902, 902, 0, 1>>,
       <<904, 906, 0, 1>>, <<908, 908, 0, 1>>, <<910, 911, 0, 1>>, <<912, 912, 0, 2>>, <<938, 943, 0, 1>>,
       <<944, 944, 0, 2>>, <<970, 974, 0, 1>>, <<979, 980, 0, 1>>, <<1024, 1025, 0, 1>>, <<1027, 1027, 0, 1>>,
       <<1031, 1031, 0, 1>>, <<1036, 1038, 0, 1>>, <<1049, 1049, 0, 1>>, <<1081, 1081, 0, 1>>, <<1104, 1105, 0, 1>>,
       <<1107, 1107, 0, 1>>, <<1111, 1111, 0, 1>>, <<1116, 1118, 0, 1>>, <<1142, 1143, 0, 1>>, <<1155, 1159, 1, 1>>,
       <<1217, 1218, 0, 1>>, <<1232, 1235, 0, 1>>, <<1238, 1239, 0, 1>>, <<1242, 1247, 0, 1>>, <<1250, 1255, 0, 1>>,
       <<1258, 1269, 0, 1>>, <<1272, 1273, 0, 1>>, <<1425, 1469, 1, 1>>, <<1471, 1471, 1, 1>>, <<1473, 1474, 1, 1>>,
       <<1476, 1477, 1, 1>>, <<1479, 1479, 1, 1>>, <<1552, 1562, 1, 1>>, <<1570, 1574, 0, 1>>, <<1611, 1631, 1, 1>>,
       <<1648, 1648, 1, 1>>, <<1728, 1728, 0, 1>>, <<1730, 1730, 0, 1>>, <<1747, 1747, 0, 1>>, <<1750, 1756, 1, 1>>,
       <<1759, 1764, 1, 1>>, <<1767, 1768, 1, 1>>, <<1770, 1773, 1, 1>>, <<1809, 1809, 1, 1>>, <<1840, 1866, 1, 1>>,
       <<2027, 2035, 1, 1>>, <<2045, 2045, 1, 1>>, <<2070, 2073, 1, 1>>, <<2075, 2083, 1, 1>>, <<2085, 2087, 1, 1>>,
       <<2089, 2093, 1, 1>>, <<2137, 2139, 1, 1>>, <<2200, 2207, 1, 1>>, <<2250, 2273, 1, 1>>, <<2275, 2303, 1, 1>>,
       <<2345, 2345, 0, 1>>, <<2353, 2353, 0, 1>>, <<2356, 2356, 0, 1>>, <<2364, 2364, 1, 1>>, <<2381, 2381, 1, 1>>,
       <<2385, 2388, 1, 1>>, <<2392, 2399, 0, 1>>, <<2492, 2492, 1, 1>>, <<2494, 2494, 1, 1>>, <<2507, 2508, 0, 1>>,
       <<2509, 2509, 1, 1>>, <<2519, 2519, 1, 1>>, <<2524, 2525, 0, 1>>, <<2527, 2527, 0, 1>>, <<2558, 2558, 1, 1>>,
       <<2611, 2611, 0, 1>>, <<2614, 2614, 0, 1>>, <<2620, 2620, 1, 1>>, <<2637, 2637, 1, 1>>, <<2649, 2651, 0, 1>>,
       <<2654, 2654, 0, 1>>, <<2748, 2748, 1, 1>>, <<2765, 2765, 1, 1>>, <<2876, 2876, 1, 1>>, <<2878, 2878, 1, 1>>,
       <<2888, 2888, 0, 1>>, <<2891, 2892, 0, 1>>, <<2893, 2893, 1, 1>>, <<2902, 2903, 1, 1>>, <<2908, 2909, 0, 1>>,
       <<2964, 2964, 0, 1>>, <<3006, 3006, 1, 1>>, <<3018, 3020, 0, 1>>, <<3021, 3021, 1, 1>>, <<3031, 3031, 1, 1>>,
       <<3132, 3132, 1, 1>>, <<3144, 3144, 0, 1>>, <<3149, 3149, 1, 1>>, <<3157, 3158, 1, 1>>, <<3260, 3260, 1, 1>>,
       <<3264, 3264, 0, 1>>, <<3266, 3266, 1, 1>>, <<3271, 3272, 0, 1>>, <<3274, 3274, 0, 1>>, <<3275, 3275, 0, 2>>,
       <<3277, 3277, 1, 1>>, <<3285, 3286, 1, 1>>, <<3387, 3388, 1, 1>>, <<3390, 3390, 1, 1>>, <<3402, 3404, 0, 1>>,
       <<3405, 3405, 1, 1>>, <<3415, 3415, 1, 1>>, <<3530, 3530, 1, 1>>, <<3535, 3535, 1, 1>>, <<3546, 3546, 0, 1>>,
       <<3548, 3548, 0, 1>>, <<3549, 3549, 0, 2>>, <<3550, 3550, 0, 1>>, <<3551, 3551, 1, 1>>, <<3640, 3642, 1, 1>>,
       <<3656, 3659, 1, 1>>, <<3768, 3770, 1, 1>>, <<3784, 3787, 1, 1>>, <<3864, 3865, 1, 1>>, <<3893, 3893, 1, 1>>,
       <<3895, 3895, 1, 1>>, <<3897, 3897, 1, 1>>, <<3953, 3954, 1, 1>>, <<3955, 3955, 2, 2>>, <<3956, 3956, 1, 1>>,
       <<3957, 3957, 2, 2>>, <<3958, 3958, 0, 1>>, <<3959, 3959, 0, 2>>, <<3960, 3960, 0, 1>>, <<3961, 3961, 0, 2>>,
       <<3962, 3965, 1, 1>>, <<3968, 3968, 1, 1>>, <<3969, 3969, 2, 2>>, <<3970, 3972, 1, 1>>, <<3974, 3975, 1, 1>>,
       <<4038, 4038, 1, 1>>, <<4134, 4134, 0, 1>>, <<4142, 4142, 1, 1>>, <<4151, 4151, 1, 1>>, <<4153, 4154, 1, 1>>,
       <<4237, 4237, 1, 1>>, <<4449, 4469, 1, 1>>, <<4520, 4546, 1, 1>>, <<4957, 4959, 1, 1>>, <<5908, 5909, 1, 1>>,
       <<5940, 5940, 1, 1>>, <<6098, 6098, 1, 1>>, <<6109, 6109, 1, 1>>, <<6313, 6313, 1, 1>>, <<6457, 6459, 1, 1>>,
       <<6679, 6680, 1, 1>>, <<6752, 6752, 1, 1>>, <<6773, 6780, 1, 1>>, <<6783, 6783, 1, 1>>, <<6832, 6845, 1, 1>>,
       <<6847, 6862, 1, 1>>, <<6918, 6918, 0, 1>>, <<6920, 6920, 0, 1>>, <<6922, 6922, 0, 1>>, <<6924, 6924, 0, 1>>,
       <<6926, 6926, 0, 1>>, <<6930, 6930, 0, 1>>, <<6964, 6965, 1, 1>>, <<6971, 6971, 0, 1>>, <<6973, 6973, 0, 1>>,
       <<6976, 6977, 0, 1>>, <<6979, 6979, 0, 1>>, <<6980, 6980, 1, 1>>, <<7019, 7027, 1, 1>>, <<7082, 7083, 1, 1>>,
       <<7142, 7142, 1, 1>>, <<7154, 7155, 1, 1>>, <<7223, 7223, 1, 1>>, <<7376, 7378, 1, 1>>, <<7380, 7392, 1, 1>>,
       <<7394, 7400, 1, 1>>, <<7405, 7405, 1, 1>>, <<7412, 7412, 1, 1>>, <<7416, 7417, 1, 1>>, <<7616, 7679, 1, 1>>,
       <<7680, 7687, 0, 1>>, <<7688, 7689, 0, 2>>, <<7690, 7699, 0, 1>>, <<7700, 7703, 0, 2>>, <<7704, 7707, 0, 1>>,
       <<7708, 7709, 0, 2>>, <<7710, 7725, 0, 1>>, <<7726, 7727, 0, 2>>, <<7728, 7735, 0, 1>>, <<7736, 7737, 0, 2>>,
       <<7738, 7755, 0, 1>>, <<7756, 7763, 0, 2>>, <<7764, 7771, 0, 1>>, <<7772, 7773, 0, 2>>, <<7774, 7779, 0, 1>>,
       <<7780, 7785, 0, 2>>, <<7786, 7799, 0, 1>>, <<7800, 7803, 0, 2>>, <<7804, 7833, 0, 1>>, <<7835, 7835, 0, 1>>,
       <<7840, 7843, 0, 1>>, <<7844, 7863, 0, 2>>, <<7864, 7869, 0, 1>>, <<7870, 7879, 0, 2>>, <<7880, 7887, 0, 1>>,
       <<7888, 7907, 0, 2>>, <<7908, 7911, 0, 1>>, <<7912, 7921, 0, 2>>, <<7922, 7929, 0, 1>>, <<7936, 7937, 0, 1>>,
       <<7938, 7943, 0, 2>>, <<7944, 7945, 0, 1>>, <<7946, 7951, 0, 2>>, <<7952, 7953, 0, 1>>, <<7954, 7957, 0, 2>>,
       <<7960, 7961, 0, 1>>, <<7962, 7965, 0, 2>>, <<7968, 7969, 0, 1>>, <<7970, 7975, 0, 2>>, <<7976, 7977, 0, 1>>,
       <<7978, 7983, 0, 2>>, <<7984, 7985, 0, 1>>, <<7986, 7991, 0, 2>>, <<7992, 7993, 0, 1>>, <<7994, 7999, 0, 2>>,
       <<8000, 8001, 0, 1>>, <<8002, 8005, 0, 2>>, <<8008, 8009, 0, 1>>, <<8010, 8013, 0, 2>>, <<8016, 8017, 0, 1>>,
       <<8018, 8023, 0, 2>>, <<8025, 8025, 0, 1>>, <<8027, 8027, 0, 2>>, <<8029, 8029, 0, 2>>, <<8031, 8031, 0, 2>>,
       <<8032, 8033, 0, 1>>, <<8034, 8039, 0, 2>>, <<8040, 8041, 0, 1>>, <<8042, 8047, 0, 2>>, <<8048, 8061, 0, 1>>,
       <<8064, 8065, 0, 2>>, <<8066, 8071, 0, 3>>, <<8072, 8073, 0, 2>>, <<8074, 8079, 0, 3>>, <<8080, 8081, 0, 2>>,
       <<8082, 8087, 0, 3>>, <<8088, 8089, 0, 2>>, <<8090, 8095, 0, 3>>, <<8096, 8097, 0, 2>>, <<8098, 8103, 0, 3>>,
       <<8104, 8105, 0, 2>>, <<8106, 8111, 0, 3>>, <<8112, 8113, 0, 1>>, <<8114, 8114, 0, 2>>, <<8115, 8115, 0, 1>>,
       <<8116, 8116, 0, 2>>, <<8118, 8118, 0, 1>>, <<8119, 8119, 0, 2>>, <<8120, 8125, 0, 1>>, <<8127, 8128, 0, 1>>,
       <<8129, 8130, 0, 2>>, <<8131, 8131, 0, 1>>, <<8132, 8132, 0, 2>>, <<8134, 8134, 0, 1>>, <<8135, 8135, 0, 2>>,
       <<8136, 8140, 0, 1>>, <<8141, 8143, 0, 2>>, <<8144, 8145, 0, 1>>, <<8146, 8147, 0, 2>>, <<8150, 8150, 0, 1>>,
       <<8151, 8151, 0, 2>>, <<8152, 8155, 0, 1>>, <<8157, 8159, 0, 2>>, <<8160, 8161, 0, 1>>, <<8162, 8163, 0, 2>>,
       <<8164, 8166, 0, 1>>, <<8167, 8167, 0, 2>>, <<8168, 8172, 0, 1>>, <<8173, 8174, 0, 2>>, <<8178, 8178, 0, 2>>,
       <<8179, 8179, 0, 1>>, <<8180, 8180, 0, 2>>, <<8182, 8182, 0, 1>>, <<8183, 8183, 0, 2>>, <<8184, 8190, 0, 1>>,
       <<8215, 8215, 0, 1>>, <<8254, 8254, 0, 1>>, <<8400, 8412, 1, 1>>, <<8417, 8417, 1, 1>>, <<8421, 8432, 1, 1>>,
       <<8491, 8491, 0, 1>>, <<8602, 8603, 0, 1>>, <<8622, 8622, 0, 1>>, <<8653, 8655, 0, 1>>, <<8708, 8708, 0, 1>>,
       <<8713, 8713, 0, 1>>, <<8716, 8716, 0, 1>>, <<8740, 8740, 0, 1>>, <<8742, 8742, 0, 1>>, <<8769, 8769, 0, 1>>,
       <<8772, 8772, 0, 1>>, <<8775, 8775, 0, 1>>, <<8777, 8777, 0, 1>>, <<8800, 8800, 0, 1>>, <<8802, 8802, 0, 1>>,
       <<8813, 8817, 0, 1>>, <<8820, 8821, 0, 1>>, <<8824, 8825, 0, 1>>, <<8832, 8833, 0, 1>>, <<8836, 8837, 0, 1>>,
       <<8840, 8841, 0, 1>>, <<8876, 8879, 0, 1>>, <<8928, 8931, 0, 1>>, <<8938, 8941, 0, 1>>, <<10972, 10972, 0, 1>>,
       <<11503, 11505, 1, 1>>, <<11647, 11647, 1, 1>>, <<11744, 11775, 1, 1>>, <<12330, 12335, 1, 1>>, <<12364, 12364, 0, 1>>,
       <<12366, 12366, 0, 1>>, <<12368, 12368, 0, 1>>, <<12370, 12370, 0, 1>>, <<12372, 12372, 0, 1>>, <<12374, 12374, 0, 1>>,
       <<12376, 12376, 0, 1>>, <<12378, 12378, 0, 1>>, <<12380, 12380, 0, 1>>, <<12382, 12382, 0, 1>>, <<12384, 12384, 0, 1>>,
       <<12386, 12386, 0, 1>>, <<12389, 12389, 0, 1>>, <<12391, 12391, 0, 1>>, <<12393, 12393, 0, 1>>, <<12400, 12401, 0, 1>>,
       <<12403, 12404, 0, 1>>, <<12406, 12407, 0, 1>>, <<12409, 12410, 0, 1>>, <<12412, 12413, 0, 1>>, <<12436, 12436, 0, 1>>,
       <<12441, 12442, 1, 1>>, <<12443, 12444, 0, 1>>, <<12446, 12446, 0, 1>>, <<12460, 12460, 0, 1>>, <<12462, 12462, 0, 1>>,
       <<12464, 12464, 0, 1>>, <<12466, 12466, 0, 1>>, <<12468, 12468, 0, 1>>, <<12470, 12470, 0, 1>>, <<12472, 12472, 0, 1>>,
       <<12474, 12474, 0, 1>>, <<12476, 12476, 0, 1>>, <<12478, 12478, 0, 1>>, <<12480, 12480, 0, 1>>, <<12482, 12482, 0, 1>>,
       <<12485, 12485, 0, 1>>, <<12487, 12487, 0, 1>>, <<12489, 12489, 0, 1>>, <<12496, 12497, 0, 1>>, <<12499, 12500, 0, 1>>,
       <<12502, 12503, 0, 1>>, <<12505, 12506, 0, 1>>, <<12508, 12509, 0, 1>>, <<12532, 12532, 0, 1>>, <<12535, 12538, 0, 1>>,
       <<12542, 12542, 0, 1>>, <<12595, 12595, 1, 1>>, <<12597, 12598, 1, 1>>, <<12602, 12607, 1, 1>>, <<12623, 12643, 1, 1>>,
       <<12910, 12926, 0, 1>>, <<13060, 13060, 0, 1>>, <<13063, 13063, 0, 1>>, <<13072, 13072, 0, 1>>, <<13086, 13086, 0, 1>>,
       <<13089, 13089, 0, 1>>, <<13106, 13106, 0, 1>>, <<13115, 13115, 0, 1>>, <<13120, 13120, 0, 1>>, <<13131, 13131, 0, 1>>,
       <<13134, 13134, 0, 1>>, <<42607, 42607, 1, 1>>, <<42612, 42621, 1, 1>>, <<42654, 42655, 1, 1>>, <<42736, 42737, 1, 1>>,
       <<43014, 43014, 1, 1>>, <<43052, 43052, 1, 1>>, <<43204, 43204, 1, 1>>, <<43232, 43249, 1, 1>>, <<43307, 43309, 1, 1>>,
       <<43347, 43347, 1, 1>>, <<43443, 43443, 1, 1>>, <<43456, 43456, 1, 1>>, <<43696, 43696, 1, 1>>, <<43698, 43700, 1, 1>>,
       <<43703, 43704, 1, 1>>, <<43710, 43711, 1, 1>>, <<43713, 43713, 1, 1>>, <<43766, 43766, 1, 1>>, <<44013, 44013, 1, 1>>,
       <<64285, 64285, 0, 1>>, <<64286, 64286, 1, 1>>, <<64287, 64287, 0, 1>>, <<64298, 64299, 0, 1>>, <<64300, 64301, 0, 2>>,
       <<64302, 64310, 0, 1>>, <<64312, 64316, 0, 1>>, <<64318, 64318, 0, 1>>, <<64320, 64321, 0, 1>>, <<64323, 64324, 0, 1>>,
       <<64326, 64334, 0, 1>>, <<64420, 64421, 0, 1>>, <<64432, 64433, 0, 1>>, <<64603, 64605, 0, 1>>, <<64606, 64611, 0, 2>>,
       <<64656, 64656, 0, 1>>, <<64729, 64729, 0, 1>>, <<64754, 64756, 0, 2>>, <<64828, 64829, 0, 1>>, <<65056, 65071, 1, 1>>,
       <<65097, 65100, 0, 1>>, <<65136, 65138, 0, 1>>, <<65140, 65140, 0, 1>>, <<65142, 65151, 0, 1>>, <<65153, 65164, 0, 1>>,
       <<65269, 65274, 0, 1>>, <<65438, 65439, 1, 1>>, <<65443, 65443, 1, 1>>, <<65445, 65446, 1, 1>>, <<65450, 65455, 1, 1>>,
       <<65474, 65479, 1, 1>>, <<65482, 65487, 1, 1>>, <<65490, 65495, 1, 1>>, <<65498, 65500, 1, 1>>, <<65507, 65507, 0, 1>>,
       <<66045, 66045, 1, 1>>, <<66272, 66272, 1, 1>>, <<66422, 66426, 1, 1>>, <<68109, 68109, 1, 1>>, <<68111, 68111, 1, 1>>,
       <<68152, 68154, 1, 1>>, <<68159, 68159, 1, 1>>, <<68325, 68326, 1, 1>>, <<68900, 68903, 1, 1>>, <<69291, 69292, 1, 1>>,
       <<69446, 69456, 1, 1>>, <<69506, 69509, 1, 1>>, <<69702, 69702, 1, 1>>, <<69744, 69744, 1, 1>>, <<69759, 69759, 1, 1>>,
       <<69786, 69786, 0, 1>>, <<69788, 69788, 0, 1>>, <<69803, 69803, 0, 1>>, <<69817, 69818, 1, 1>>, <<69888, 69890, 1, 1>>,
       <<69927, 69927, 1, 1>>, <<69934, 69935, 0, 1>>, <<69939, 69940, 1, 1>>, <<70003, 70003, 1, 1>>, <<70080, 70080, 1, 1>>,
       <<70090, 70090, 1, 1>>, <<70197, 70198, 1, 1>>, <<70377, 70378, 1, 1>>, <<70459, 70460, 1, 1>>, <<70462, 70462, 1, 1>>,
       <<70475, 70476, 0, 1>>, <<70477, 70477, 1, 1>>, <<70487, 70487, 1, 1>>, <<70502, 70508, 1, 1>>, <<70512, 70516, 1, 1>>,
       <<70722, 70722, 1, 1>>, <<70726, 70726, 1, 1>>, <<70750, 70750, 1, 1>>, <<70832, 70832, 1, 1>>, <<70842, 70842, 1, 1>>,
       <<70843, 70844, 0, 1>>, <<70845, 70845, 1, 1>>, <<70846, 70846, 0, 1>>, <<70850, 70851, 1, 1>>, <<71087, 71087, 1, 1>>,
       <<71098, 71099, 0, 1>>, <<71103, 71104, 1, 1>>, <<71231, 71231, 1, 1>>, <<71350, 71351, 1, 1>>, <<71467, 71467, 1, 1>>,
       <<71737, 71738, 1, 1>>, <<71984, 71984, 1, 1>>, <<71992, 71992, 0, 1>>, <<71997, 71998, 1, 1>>, <<72003, 72003, 1, 1>>,
       <<72160, 72160, 1, 1>>, <<72244, 72244, 1, 1>>, <<72263, 72263, 1, 1>>, <<72345, 72345, 1, 1>>, <<72767, 72767, 1, 1>>,
       <<73026, 73026, 1, 1>>, <<73028, 73029, 1, 1>>, <<73111, 73111, 1, 1>>, <<92912, 92916, 1, 1>>, <<92976, 92982, 1, 1>>,
       <<94192, 94193, 1, 1>>, <<113822, 113822, 1, 1>>, <<119134, 119135, 0, 1>>, <<119136, 119140, 0, 2>>, <<119141, 119145, 1, 1>>,
       <<119149, 119154, 1, 1>>, <<119163, 119170, 1, 1>>, <<119173, 119179, 1, 1>>, <<119210, 119213, 1, 1>>, <<119227, 119228, 0, 1>>,
       <<119229, 119232, 0, 2>>, <<119362, 119364, 1, 1>>, <<122880, 122886, 1, 1>>, <<122888, 122904, 1, 1>>, <<122907, 122913, 1, 1>>,
       <<122915, 122916, 1, 1>>, <<122918, 122922, 1, 1>>, <<123184, 123190, 1, 1>>, <<123566, 123566, 1, 1>>, <<123628, 123631, 1, 1>>,
       <<125136, 125142, 1, 1>>, <<125252, 125258, 1, 1>>, <<127507, 127507, 0, 1>> >>

\* Properties.nLeadingNonStarters and nTrailingNonStarters of the rune r:
\* [nLead, nTrail]; a byte of no valid encoding has none
NonStarters(r) ==
    IF r < 168 THEN [nLead |-> 0, nTrail |-> 0]
    ELSE IF r >= 44032 /\ r <= 55203
    THEN [nLead |-> 0, nTrail |-> IF (r - 44032) % 28 = 0 THEN 1 ELSE 2]
    ELSE The({ IF hit = <<>> THEN [nLead |-> 0, nTrail |-> 0]
               ELSE [nLead |-> hit[1][3], nTrail |-> hit[1][4]]
               : hit \in {SelectSeq(NonStarterRanges,
                                    LAMBDA e : e[1] <= r /\ r <= e[2])} })

\* the Stream-Safe Text Format of the runes rs from position i on, as norm
\* makes it while it decomposes: ss counts the non-starters since the last
\* starter (streamSafe.next).  A rune that would take the count over 30,
\* norm's maxNonStarters, gets the grapheme joiner U+034F put before it and
\* the count starts again; a rune that begins with no non-starter is a
\* starter and sets the count to the non-starters it ends with.
RECURSIVE streamSafe(_, _, _, _)
streamSafe(rs, i, ss, out) ==
    IF i > Len(rs) THEN out
    ELSE The({ IF ss + p.nLead > 30
               THEN streamSafe(rs, i, 0, Append(out, 847))
               ELSE streamSafe(rs, i + 1,
                               IF p.nLead = 0 THEN p.nTrail ELSE ss + p.nLead,
                               Append(out, rs[i]))
               : p \in {NonStarters(rs[i])} })

\* norm.NFD on runes; bytes of no valid encoding stay.  The runes are put
\* in the Stream-Safe Text Format, decomposed, and ordered within each run
\* of runes of a class that is not zero.
NFD(rs) ==
    The({ The({ IF \A i \in DOMAIN d : d[i] < 768 THEN d ELSE CanonicalOrder(d)
                : d \in {Flatten([i \in DOMAIN ss |->
                                    IF ss[i] < 0 THEN <<ss[i]>> ELSE Decompose(ss[i])])} })
          : ss \in {IF \A i \in DOMAIN rs : rs[i] < 768 THEN rs
                    ELSE streamSafe(rs, 1, 0, <<>>)} })

\* transform.RemoveFunc(f) on runes; a byte of no valid encoding becomes
\* U+FFFD when f keeps that rune
RemoveFunc(f, rs) ==
    SelectSeq([i \in DOMAIN rs |-> IF rs[i] < 0 THEN 65533 ELSE rs[i]],
              LAMBDA r : ~f[r])

\* the lower case of a rune by itself
LowerRune(r) ==
    IF r < 128 THEN <<ToLower(r)>>
    ELSE IF r = 304 THEN <<105, 775>>
    ELSE IF \E k \in DOMAIN LowerRanges :
               /\ LowerRanges[k][1] <= r /\ r <= LowerRanges[k][2]
               /\ (r - LowerRanges[k][1]) % LowerRanges[k][3] = 0
    THEN <<r + LowerRanges[CHOOSE k \in DOMAIN LowerRanges :
                              /\ LowerRanges[k][1] <= r /\ r <= LowerRanges[k][2]
                              /\ (r - LowerRanges[k][1]) % LowerRanges[k][3] = 0][4]>>
    ELSE <<r>>

Cased(r) == IF r < 128 THEN ToLower(r) \in 97..122 ELSE InRanges(CasedRanges, r)

CaseIgnorable(r) ==
    IF r < 128 THEN r \in {39, 46, 58, 94, 96} ELSE InRanges(CaseIgnorableRanges, r)

\* cases.Lower on runes: every rune in lower case; a capital sigma that
\* ends a word is the final sigma.  A word starts at a cased rune (a
\* case-ignorable one included) and goes on over cased and case-ignorable
\* runes.  A sigma inside a word is final unless the first rune after it
\* that is not case-ignorable is cased; the search looks at the maxIgnorable
\* + 1 = 31 runes that follow the sigma.
Lower(rs) ==
    LET skipBack(i) == {j \in 1..(i - 1) : \A k \in (j + 1)..(i - 1) : rs[k] >= 0 /\ CaseIgnorable(rs[k])}
        skipAhead(i) == {j \in (i + 1)..Min(Len(rs), i + 31) :
                            \A k \in (i + 1)..(j - 1) : rs[k] >= 0 /\ CaseIgnorable(rs[k])}
        final(i) == /\ \E j \in skipBack(i) : rs[j] >= 0 /\ Cased(rs[j])
                    /\ ~\E j \in skipAhead(i) : rs[j] >= 0 /\ Cased(rs[j]) /\ ~CaseIgnorable(rs[j])
    IN  IF \A i \in DOMAIN rs : rs[i] < 128 /\ rs[i] >= 0
        THEN [i \in DOMAIN rs |-> ToLower(rs[i])]
        ELSE Flatten([i \in DOMAIN rs |->
                        IF rs[i] < 0 THEN <<rs[i]>>
                        ELSE IF rs[i] = 931 /\ final(i) THEN <<962>>
                        ELSE LowerRune(rs[i])])

isWhite(c) == c \in {9, 10, 11, 12, 13, 32}

\* whitespaceDedupe.Transform on one source buffer: drop a whitespace byte
\* that follows a whitespace byte of the same buffer
whitespaceDedupe(s) ==
    SelectSeq([i \in DOMAIN s |->
                 IF isWhite(s[i]) /\ i > 1 /\ isWhite(s[i - 1]) THEN -1 ELSE s[i]],
              LAMBDA c : c # -1)

\* transform's grow: the new length of a destination buffer of m bytes
grow(m) == IF m <= 32 THEN 64 ELSE IF m <= 256 THEN 2 * m ELSE m + (m \div 2)

\* transform.Bytes driving the last link of the chain: src is what the
\* links before it hand over, dstLen the length of the destination buffer
\* and out the bytes written to it.  whitespaceDedupe.Transform stops with
\* ErrShortDst at the source byte whose index is the room left in the
\* destination, and starts afresh on the bytes left, the buffer grown when
\* nothing was written.
RECURSIVE Bytes(_, _, _)
Bytes(src, dstLen, out) ==
    The({ IF Len(src) <= room THEN out \o whitespaceDedupe(src)
          ELSE Bytes(SubSeq(src, room + 1, Len(src)),
                     IF room = 0 THEN grow(dstLen) ELSE dstLen,
                     out \o whitespaceDedupe(SubSeq(src, 1, room)))
          : room \in {dstLen - Len(out)} })

\* NewNormalizer(locale, removeAccents, removePunct), for the locales that
\* have no casing rules of their own
NewNormalizer(removeAccents, removePunct) ==
    [removeAccents |-> removeAccents, removePunct |-> removePunct]

\* getNormalizer: the normalizers of the driver's pool
getNormalizer == NewNormalizer(TRUE, FALSE)

\* transform.Bytes(d.transformer, input): [err, b].  The input goes through
\* the chain (decompose, remove the accents, remove the punctuation, lower
\* case, deduplicate whitespace) into a buffer of the length of the input.
\* The links report nothing but a short destination, which Bytes answers
\* by going on or growing the buffer, so err is nil.  (For inputs that fit
\* the buffers between the links.)
transformBytes(d, input) ==
    The({ The({ The({ [err |-> FALSE,
                       b |-> Bytes(RunesToBytes(Lower(p)), Len(input), <<>>)]
                      : p \in {IF d.removePunct THEN RemoveFunc(filterPunct, a)
                               ELSE a} })
                : a \in {IF d.removeAccents THEN RemoveFunc(filterMn, n) ELSE n} })
          : n \in {NFD(Runes(input))} })

\* DefaultTextNormalizer.Normalize: [err, ret].  Empty input gives the empty
\* string; an error of the transformation is returned with an empty string.
Normalize(d, input) ==
    IF Len(input) = 0 THEN [err |-> FALSE, ret |-> <<>>]
    ELSE The({ IF t.err THEN [err |-> TRUE, ret |-> <<>>]
               ELSE [err |-> FALSE, ret |-> t.b]
               : t \in {transformBytes(d, input)} })

(***************************************************************************)
(* Index-ready values (prepareValue, formatValue)                          *)
(***************************************************************************)
\* binary.BigEndian.PutUint64 of uint64(v) for an Int or Uint v, as 16 hex
\* digits (values 0..15); a negative number is its two's complement
PutUint64(v) ==
    IF IsBig(v)
    THEN The({ HexOf(IF v.big.neg THEN IncrementBits([i \in DOMAIN m |-> 1 - m[i]]) ELSE m)
               : m \in {The({ [i \in 1..(64 - Len(b)) |-> 0] \o b
                              : b \in {BinaryOf(v.big.digits)} })} })
    ELSE [i \in 1..16 |->
             IF i <= 8 THEN (IF v.val < 0 THEN 15 ELSE 0)
             ELSE (v.val \div 16^(16 - i)) % 16]

\* hex.EncodeToString of a sequence of hex digits
EncodeToString(ds) ==
    [i \in DOMAIN ds |-> IF ds[i] < 10 THEN 48 + ds[i] ELSE 87 + ds[i]]

\* prepareValue: [err, val].  A text is normalised; an Int or Uint becomes
\* the hex form of its 8 big-endian bytes, a Float the hex form of its
\* order-preserving bits, and any other value its encoded bytes
prepareValue(val) ==
    IF val.type = "nil" THEN [err |-> FALSE, val |-> Nil]
    ELSE IF val.type \in {"Text", "string", "bytes"}
         THEN The({ [err |-> n.err, val |-> Str(n.ret)]
                    : n \in {Normalize(getNormalizer, val.val)} })
    ELSE IF val.type \in {"Int", "Uint"}
         THEN [err |-> FALSE, val |-> Str(EncodeToString(PutUint64(val)))]
    ELSE IF val.type = "Float"
         THEN [err |-> FALSE,
               val |-> Str(EncodeToString(FloatOrderBits(Float64bits(val.val))))]
    ELSE [err |-> FALSE, val |-> ByteSlice(Encode(val))]

\* fmt.Sprintf("%v", nil) = "<nil>"
NilText == <<60, 110, 105, 108, 62>>

\* fmt.Sprintf("%v", pv) of a prepared value: a string as it is, a []byte
\* as the numbers of its bytes between brackets
Sprintv(pv) ==
    IF pv.type = "nil" THEN NilText
    ELSE IF pv.type = "bytes"
    THEN <<91>> \o Flatten([i \in DOMAIN pv.val |->
                              (IF i > 1 THEN <<32>> ELSE <<>>) \o Decimal(pv.val[i])])
         \o <<93>>
    ELSE pv.val

\* formatValue: the serialised form used in compound primary ids
formatValue(pv) ==
    (IF pv.type = "nil" THEN NilText ELSE pv.val) \o <<PIPE>>

(***************************************************************************)
(* Filters and ordering (package query)                                    *)
(***************************************************************************)
IdKey == "id"

NoOrder == [By |-> "", Ascending |-> TRUE]

IsNil(order) == order.By = ""

Filter(prop, op, values) == [Property |-> prop, Operator |-> op, Values |-> values]

\* Filters.One: the single filter of a one-filter set
One(filters) ==
    IF Cardinality(DOMAIN filters) = 1
    THEN [single |-> TRUE, flt |-> filters[CHOOSE p \in DOMAIN filters : TRUE]]
    ELSE [single |-> FALSE, flt |-> Filter("", "", <<>>)]

(***************************************************************************)
(* Redis sorted sets with all scores 0                                     *)
(***************************************************************************)
\* a bound of a lexicographic range: redis takes "+", "-" and strings that
\* begin with '[' (inclusive) or '(' (exclusive), and answers every other
\* bound with the error "min or max not valid string range item"
LexBoundValid(b) == b \in {<<43>>, <<45>>} \/ (Len(b) > 0 /\ b[1] \in {91, 40})

\* is member e at or above the lower bound min?
AboveMin(e, min) ==
    IF min = <<45>> THEN TRUE
    ELSE IF min = <<43>> THEN FALSE
    ELSE IF min[1] = 91 THEN LexLeq(Tail(min), e) ELSE LexLess(Tail(min), e)

\* is member e at or below the upper bound max?
BelowMax(e, max) ==
    IF max = <<43>> THEN TRUE
    ELSE IF max = <<45>> THEN FALSE
    ELSE IF max[1] = 91 THEN LexLeq(e, Tail(max)) ELSE LexLess(e, Tail(max))

\* the members of zset within the valid bounds min and max
LexRange(zset, min, max) == {e \in zset : AboveMin(e, min) /\ BelowMax(e, max)}

\* a reply of redis: an error, or a value
ErrReply == [err |-> TRUE, val |-> <<>>]

Reply(v) == [err |-> FALSE, val |-> v]

\* LIMIT offset count on the members in range; limited is whether LIMIT was
\* given
Limit(all, limited, offset, count) ==
    IF limited THEN Slice(all, offset, count) ELSE all

ZRANGEBYLEX(zset, min, max, limited, offset, count) ==
    IF ~(LexBoundValid(min) /\ LexBoundValid(max)) THEN ErrReply
    ELSE Reply(Limit(SortLex(LexRange(zset, min, max)), limited, offset, count))

ZREVRANGEBYLEX(zset, max, min, limited, offset, count) ==
    IF ~(LexBoundValid(min) /\ LexBoundValid(max)) THEN ErrReply
    ELSE Reply(Limit(Reverse(SortLex(LexRange(zset, min, max))), limited, offset, count))

ZLEXCOUNT(zset, min, max) ==
    IF ~(LexBoundValid(min) /\ LexBoundValid(max)) THEN ErrReply
    ELSE Reply(Cardinality(LexRange(zset, min, max)))

\* ZCARD key
ZCARD(zset) == Cardinality(zset)

\* ZRANGE / ZREVRANGE key start stop with start >= 0 (stop -1 = the end)
ZRANGE(zset, start, stop, ascending) ==
    The({ IF stop = -1 THEN Slice(all, start, Len(all))
          ELSE Slice(all, start, stop - start + 1)
          : all \in {IF ascending THEN SortLex(zset) ELSE Reverse(SortLex(zset))} })

(***************************************************************************)
(* CompoundIndex (compound.go).  An index is given by its property list.   *)
(***************************************************************************)
\* the loop of CompoundIndex.Matches over the index properties from
\* position i on; returns the number of matches or -1 for "no match"
RECURSIVE MatchesLoop(_, _, _, _, _, _)
MatchesLoop(properties, filters, order, expectedMatches, i, matches) ==
    IF i > Len(properties) THEN matches
    ELSE LET p == properties[i]
         IN  IF p \notin DOMAIN filters
             THEN IF ~IsNil(order) /\ p = order.By
                  THEN MatchesLoop(properties, filters, order, expectedMatches, i + 1, matches + 1)
                  ELSE -1
             ELSE IF matches + 1 = expectedMatches
                  THEN matches + 1
                  ELSE MatchesLoop(properties, filters, order, expectedMatches, i + 1, matches + 1)

\* CompoundIndex.Matches: [match, matches, of]; the score is matches / of
CompoundMatches(properties, filters, order) ==
    LET nf == Cardinality(DOMAIN filters)
        expectedMatches ==
            IF ~IsNil(order) /\ order.By \notin DOMAIN filters THEN nf + 1 ELSE nf
        no == [match |-> FALSE, matches |-> 0, of |-> Len(properties)]
    IN  IF ~IsNil(order) /\ order.By # properties[Len(properties)] THEN no
        ELSE IF expectedMatches > Len(properties) THEN no
        ELSE LET m == MatchesLoop(properties, filters, order, expectedMatches, 1, 0)
             IN  IF m < 0 THEN no
                 ELSE [match |-> TRUE, matches |-> m, of |-> Len(properties)]

\* CompoundIndex.MatchesProperties for one property
MatchesProperties(properties, p) == Contains(properties, p)

\* CompoundIndex.entry: the index entry of id for prepared property values
\* (a function from property names to prepared values); <<>> when a property
\* of the index is missing or every value is nil
RECURSIVE entryVals(_, _, _)
entryVals(properties, vals, n) ==
    IF n > Len(properties) THEN <<>>
    ELSE (IF n > 1 THEN <<PIPE>> ELSE <<>>)
         \o (IF vals[properties[n]].type # "nil" THEN Sprintv(vals[properties[n]]) ELSE <<>>)
         \o entryVals(properties, vals, n + 1)

entry(properties, id, vals) ==
    IF \E n \in DOMAIN properties : properties[n] \notin DOMAIN vals THEN <<>>
    ELSE IF \A n \in DOMAIN properties : vals[properties[n]].type = "nil" THEN <<>>
    ELSE entryVals(properties, vals, 1) \o <<PIPE, COLON, COLON>> \o id

\* strings.Split(s, "::"): the parts of s between non-overlapping "::"
RECURSIVE SplitColons(_, _)
SplitColons(s, cur) ==
    IF Len(s) = 0 THEN <<cur>>
    ELSE IF Len(s) >= 2 /\ s[1] = COLON /\ s[2] = COLON
         THEN <<cur>> \o SplitColons(SubSeq(s, 3, Len(s)), <<>>)
         ELSE SplitColons(Tail(s), Append(cur, s[1]))

extractId(s) ==
    LET parts == SplitColons(s, <<>>)
    IN  IF Len(parts) = 2 THEN parts[2] ELSE <<>>

\* CompoundIndex.rangeKeys: [err, rStart, rEnd]
RECURSIVE rangeKeysLoop(_, _, _, _, _)
rangeKeysLoop(properties, vals, order, n, acc) ==
    IF n > Len(properties) \/ properties[n] \notin DOMAIN vals THEN acc
    ELSE LET p == properties[n]
             f == vals[p]
             a == [acc EXCEPT !.nProps = @ + 1]
         IN  IF f.Operator = "="
             THEN IF a.numRanges > 0 THEN [a EXCEPT !.err = TRUE]
                  ELSE LET pv == prepareValue(f.Values[1])
                           b == Sprintv(pv.val) \o <<PIPE>>
                       IN  IF pv.err THEN [a EXCEPT !.err = TRUE]
                           ELSE rangeKeysLoop(properties, vals, order, n + 1,
                                    [a EXCEPT !.startVals = @ \o b, !.endVals = @ \o b])
             ELSE IF f.Operator = "><"
             THEN IF ~IsNil(order) /\ order.By # p THEN [a EXCEPT !.err = TRUE]
                  ELSE IF a.numRanges > 0 THEN [a EXCEPT !.err = TRUE]
                  ELSE LET lo == prepareValue(f.Values[1])
                           hi == prepareValue(f.Values[2])
                       IN  IF lo.err \/ hi.err THEN [a EXCEPT !.err = TRUE]
                           ELSE rangeKeysLoop(properties, vals, order, n + 1,
                                    [a EXCEPT !.numRanges = @ + 1,
                                              !.startVals = @ \o Sprintv(lo.val),
                                              !.endVals = @ \o Sprintv(hi.val)])
             ELSE [a EXCEPT !.err = TRUE]

rangeKeys(properties, vals, order) ==
    The({ IF r.err THEN [err |-> TRUE, rStart |-> <<>>, rEnd |-> <<>>]
          ELSE IF r.nProps > 0
               THEN [err |-> FALSE, rStart |-> r.startVals,
                     rEnd |-> Append(r.endVals, HIGH)]
               ELSE [err |-> FALSE, rStart |-> <<>>, rEnd |-> <<>>] :
          r \in {rangeKeysLoop(properties, vals, order, 1,
                     [err |-> FALSE, startVals |-> <<91>>, endVals |-> <<40>>,
                      nProps |-> 0, numRanges |-> 0])} })

\* CompoundIndex.Find up to the Execute of its batch: the two commands it
\* queues, [err, rev, arg1, arg2, limited, offset, count].  The range command
\* is ZREVRANGEBYLEX when rev and ZRANGEBYLEX otherwise, with the bounds arg1
\* and arg2 in this order and LIMIT offset offset+limit when limited;
\* ZLEXCOUNT gets the same two bounds in the same order.
CompoundFindCommands(properties, filters, offset, limit, order) ==
    The({ LET rev == ~IsNil(order) /\ ~order.Ascending
          IN  [err |-> rk.err, rev |-> rev,
               arg1 |-> IF rev THEN rk.rEnd ELSE rk.rStart,
               arg2 |-> IF rev THEN rk.rStart ELSE rk.rEnd,
               limited |-> limit > 0, offset |-> offset, count |-> offset + limit] :
          rk \in {rangeKeys(properties, filters, order)} })

\* the first command of the batch of CompoundIndex.Find on the index's sorted
\* set
CompoundFindRange(zset, q) ==
    IF q.rev THEN ZREVRANGEBYLEX(zset, q.arg1, q.arg2, q.limited, q.offset, q.count)
    ELSE ZRANGEBYLEX(zset, q.arg1, q.arg2, q.limited, q.offset, q.count)

\* the ids CompoundIndex.Find makes of the reply of the range command
CompoundFindIds(raw) == <<>> \o [n \in DOMAIN raw |-> extractId(raw[n])]

(***************************************************************************)
(* Primary indexes (primary.go).  A table descriptor is                    *)
(*   [primary |-> [type, columns], indexes |-> <<property list, ...>>]     *)
(* with primary.type "random" or "compound" (unhashed).                    *)
(***************************************************************************)
\* basePrimaryIndex.Properties / compoundPrimaryIndex.Properties
PrimaryProperties(desc) ==
    IF desc.primary.type = "compound" THEN desc.primary.columns ELSE <<IdKey>>

\* randomPrimaryIndex.Matches / compoundPrimaryIndex.Matches
PrimaryMatches(desc, filters) ==
    LET o == One(filters)
    IN  \/ o.single /\ o.flt.Property = IdKey
        \/ /\ desc.primary.type = "compound"
           /\ Cardinality(DOMAIN filters) = Len(desc.primary.columns)
           /\ \A p \in DOMAIN filters : Contains(desc.primary.columns, p)

\* compoundPrimaryIndex.GenerateId: [err, id]
RECURSIVE compoundKey(_, _, _)
compoundKey(columns, ent, n) ==
    IF n > Len(columns) THEN <<>>
    ELSE formatValue(prepareValue(ent.Properties[columns[n]]).val)
         \o compoundKey(columns, ent, n + 1)

\* compoundPrimaryIndex.GenerateId that keeps an id given by the caller, as
\* the random primary does
CompoundGenerateIdKeepGiven(columns, ent) ==
    IF ent.Id # <<>> THEN [err |-> FALSE, id |-> ent.Id]
    ELSE IF \E n \in DOMAIN columns :
               \/ columns[n] \notin DOMAIN ent.Properties
               \/ ent.Properties[columns[n]].type = "nil"
               \/ prepareValue(ent.Properties[columns[n]]).err
         THEN [err |-> TRUE, id |-> <<>>]
         ELSE [err |-> FALSE, id |-> compoundKey(columns, ent, 1)]

CompoundGenerateId(columns, ent) ==
    IF \E n \in DOMAIN columns :
          \/ columns[n] \notin DOMAIN ent.Properties
          \/ ent.Properties[columns[n]].type = "nil"
          \/ prepareValue(ent.Properties[columns[n]]).err
    THEN [err |-> TRUE, id |-> <<>>]
    ELSE [err |-> FALSE, id |-> compoundKey(columns, ent, 1)]

\* randomPrimaryIndex.GenerateId: the given id, or the random id uid
RandomGenerateId(ent, uid) ==
    IF ent.Id # <<>> THEN [err |-> FALSE, id |-> ent.Id]
    ELSE [err |-> FALSE, id |-> uid]

\* compoundPrimaryIndex.filtersToIds: one id per combination of the filter
\* values, the first column varying slowest
\* compoundPrimaryIndex.filtersToIds with the loops over the partial ids and
\* over the values exchanged: the first column varies fastest
RECURSIVE filtersToIdsInner(_, _, _, _)
filtersToIdsInner(columns, filters, n, idBuffers) ==
    IF n > Len(columns) THEN idBuffers
    ELSE LET vs == filters[columns[n]].Values
             fv(k) == formatValue(prepareValue(vs[k]).val)
         IN  IF n = 1
             THEN filtersToIdsInner(columns, filters, n + 1, [k \in DOMAIN vs |-> fv(k)])
             ELSE filtersToIdsInner(columns, filters, n + 1,
                      [j \in 1..(Len(idBuffers) * Len(vs)) |->
                          idBuffers[((j - 1) % Len(idBuffers)) + 1]
                              \o fv(((j - 1) \div Len(idBuffers)) + 1)])

RECURSIVE filtersToIdsLoop(_, _, _, _)
filtersToIdsLoop(columns, filters, n, idBuffers) ==
    IF n > Len(columns) THEN idBuffers
    ELSE LET vs == filters[columns[n]].Values
             fv(k) == formatValue(prepareValue(vs[k]).val)
         IN  IF n = 1
             THEN filtersToIdsLoop(columns, filters, n + 1, [k \in DOMAIN vs |-> fv(k)])
             ELSE filtersToIdsLoop(columns, filters, n + 1,
                      [j \in 1..(Len(idBuffers) * Len(vs)) |->
                          idBuffers[((j - 1) \div Len(vs)) + 1] \o fv(((j - 1) % Len(vs)) + 1)])

filtersToIds(columns, filters) ==
    IF \E n \in DOMAIN columns :
          \/ columns[n] \notin DOMAIN filters
          \/ \E k \in DOMAIN filters[columns[n]].Values :
                prepareValue(filters[columns[n]].Values[k]).err
    THEN [err |-> TRUE, ids |-> <<>>]
    ELSE [err |-> FALSE, ids |-> filtersToIdsLoop(columns, filters, 1, <<>>)]

\* EXISTS of the row key of id
EXISTS(rowsT, id) == id \in DOMAIN rowsT

\* basePrimaryIndex.find after the Execute of its batch: exists are the
\* replies of the EXISTS of keys, total that of ZCARD; the ids whose row
\* exists, the dangling ids to read-repair, and the total
findReplies(keys, exists, total) ==
    LET at(b) == SelectSeq([i \in DOMAIN keys |-> i], LAMBDA i : exists[i] = b)
        pick(is) == <<>> \o [n \in DOMAIN is |-> keys[is[n]]]
    IN  [ids |-> pick(at(TRUE)), repairs |-> pick(at(FALSE)), total |-> total]

\* basePrimaryIndex.scan: the transaction of ZRANGE / ZREVRANGE and ZCARD of
\* the primary set; the ids of its first reply
primaryScan(zprim, offset, limit, order) ==
    IF limit > 0 THEN ZRANGE(zprim, offset, offset + limit - 1, order.Ascending)
    ELSE ZRANGE(zprim, 0, -1, order.Ascending)

\* randomPrimaryIndex.Find / compoundPrimaryIndex.Find up to their first
\* backend call: [err, scan, ids]; scan tells that the ids are to be
\* scanned from the primary set, otherwise ids are the ids to find
PrimaryFind(desc, filters) ==
    LET o == One(filters)
        bad == [err |-> TRUE, scan |-> FALSE, ids |-> <<>>]
        ok(ids) == [err |-> FALSE, scan |-> FALSE, ids |-> ids]
    IN  IF o.single /\ o.flt.Property = IdKey
        THEN IF o.flt.Operator = "ALL"
             THEN [err |-> FALSE, scan |-> TRUE, ids |-> <<>>]
             ELSE IF desc.primary.type = "random" /\ o.flt.Operator \notin {"=", "IN"}
                  THEN bad
                  ELSE ok(o.flt.Values)
        ELSE IF desc.primary.type = "random" THEN bad
        ELSE LET f == filtersToIds(desc.primary.columns, filters)
             IN  IF f.err THEN bad ELSE ok(f.ids)

(***************************************************************************)
(* ChangeSet (changeset.go)                                                *)
(***************************************************************************)
\* the property names of the model in byte order, for propertyList.sorted
PropOrder == <<"", "city", "id", "name", "pkg", "score">>

Change(prop, value, op) == [Property |-> prop, Value |-> value, Op |-> op]

\* query.Set / query.Expire
Set(prop, newVal) == Change(prop, newVal, "SET")

Expire(ttl) == Change("", ttl, "EXP")

\* propertyList.sorted
RECURSIVE sortedFrom(_, _)
sortedFrom(l, n) ==
    IF n > Len(PropOrder) THEN <<>>
    ELSE SelectSeq(l, LAMBDA p : p = PropOrder[n]) \o sortedFrom(l, n + 1)

sorted(l) == sortedFrom(l, 1)

\* propertyList.hash: FNV-1a over the concatenated names, represented by
\* the concatenation itself
RECURSIVE hash(_)
hash(l) == IF l = <<>> THEN "" ELSE Head(l) \o hash(Tail(l))

\* newEntityChange
newEntityChange(objectId, ct, changes) ==
    [changes |-> changes,
     changedProperties |-> sorted([i \in DOMAIN changes |-> changes[i].Property]),
     objectId |-> objectId,
     changeType |-> ct]

\* append to props the properties of l that props does not contain yet
RECURSIVE addMissing(_, _)
addMissing(props, l) ==
    IF l = <<>> THEN props
    ELSE addMissing(IF Contains(props, Head(l)) THEN props ELSE Append(props, Head(l)),
                    Tail(l))

\* the loops of changeSet.indexableProperties over the changes and, for
\* each change, over the secondary indexes
RECURSIVE indexableLoop(_, _, _, _, _)
indexableLoop(desc, rc, props, c, i) ==
    IF c > Len(rc.changes) THEN props
    ELSE IF i > Len(desc.indexes) THEN indexableLoop(desc, rc, props, c + 1, 1)
    ELSE IF rc.changeType = "delete" \/ MatchesProperties(desc.indexes[i], rc.changes[c].Property)
         THEN indexableLoop(desc, rc, addMissing(props, desc.indexes[i]), c, i + 1)
         ELSE indexableLoop(desc, rc, props, c, i + 1)

\* changeSet.indexableProperties: [props, cache], cache being the
\* process-wide propCache after the call
indexableProperties(desc, cache, rc) ==
    The({ IF h \in DOMAIN cache THEN [props |-> cache[h], cache |-> cache]
          ELSE The({ [props |-> props,
                      cache |-> [k \in DOMAIN cache \cup {h} |->
                                    IF k = h THEN props ELSE cache[k]]]
                     : props \in {indexableLoop(desc, rc, PrimaryProperties(desc),
                                                1, 1)} })
          : h \in {hash(rc.changedProperties)} })

\* entityChange.commands: [err, cmds].  The HMSET of all SET changes comes
\* first, a DEL replaces every other command.
RECURSIVE commandsLoop(_, _, _, _)
commandsLoop(changes, n, hmset, ret) ==
    IF n > Len(changes)
    THEN [err |-> FALSE,
          cmds |-> (IF Len(hmset) = 0 THEN <<>>
                    ELSE <<[command |-> "HMSET", args |-> hmset]>>) \o ret]
    ELSE LET ch == changes[n]
         IN  CASE ch.Op = "NOOP" -> commandsLoop(changes, n + 1, hmset, ret)
               [] ch.Op = "SET" ->
                    commandsLoop(changes, n + 1,
                                 Append(hmset, <<ch.Property, Encode(ch.Value)>>), ret)
               [] ch.Op = "DEL" ->
                    [err |-> FALSE, cmds |-> <<[command |-> "DEL", args |-> <<>>]>>]
               [] ch.Op = "INCR" ->
                    commandsLoop(changes, n + 1, hmset,
                                 Append(ret, [command |-> "HINCRBY",
                                              args |-> <<ch.Property, ch.Value>>]))
               [] ch.Op = "PDEL" ->
                    commandsLoop(changes, n + 1, hmset,
                                 Append(ret, [command |-> "HDEL", args |-> <<ch.Property>>]))
               [] ch.Op = "EXP" ->
                    commandsLoop(changes, n + 1, hmset,
                                 Append(ret, [command |-> "PEXPIRE", args |-> <<ch.Value>>]))
               [] OTHER -> [err |-> TRUE, cmds |-> <<>>]

commands(rc) == commandsLoop(rc.changes, 1, <<>>, <<>>)

(***************************************************************************)
(* Redis row hashes.  The rows of a table are a function from the ids of   *)
(* the existing row keys to [fields, ttl].                                 *)
(***************************************************************************)
\* the reply for a missing field or key

HMGET(rowsT, id, props) ==
    [n \in DOMAIN props |->
        IF id \in DOMAIN rowsT /\ props[n] \in DOMAIN rowsT[id].fields
        THEN rowsT[id].fields[props[n]]
        ELSE NullReply]

RemoveKey(rowsT, id) == [k \in DOMAIN rowsT \ {id} |-> rowsT[k]]

SetKey(rowsT, id, row) == [k \in DOMAIN rowsT \cup {id} |-> IF k = id THEN row ELSE rowsT[k]]

RECURSIVE setFields(_, _)
setFields(fields, pairs) ==
    IF pairs = <<>> THEN fields
    ELSE setFields([f \in DOMAIN fields \cup {Head(pairs)[1]} |->
                       IF f = Head(pairs)[1] THEN Head(pairs)[2] ELSE fields[f]],
                   Tail(pairs))

\* the effect of one row command on the rows of a table
ApplyCommand(rowsT, id, cmd) ==
    CASE cmd.command = "HMSET" ->
            LET old == IF id \in DOMAIN rowsT THEN rowsT[id]
                       ELSE [fields |-> EmptyMap, ttl |-> FALSE]
            IN  SetKey(rowsT, id, [old EXCEPT !.fields = setFields(@, cmd.args)])
      [] cmd.command = "DEL" -> RemoveKey(rowsT, id)
      [] cmd.command = "HDEL" ->
            IF id \notin DOMAIN rowsT THEN rowsT
            ELSE LET fs == [f \in DOMAIN rowsT[id].fields \ {cmd.args[1]} |->
                               rowsT[id].fields[f]]
                 IN  IF DOMAIN fs = {} THEN RemoveKey(rowsT, id)
                     ELSE SetKey(rowsT, id, [rowsT[id] EXCEPT !.fields = fs])
      [] cmd.command = "HINCRBY" ->
            \* a missing key or field counts as 0; a stored value that is
            \* not a decimal integer is left as it is
            LET old == IF id \in DOMAIN rowsT THEN rowsT[id]
                       ELSE [fields |-> EmptyMap, ttl |-> FALSE]
            IN  The({ IF cur.err \/ cur.val.type # "Int" THEN rowsT
                      ELSE SetKey(rowsT, id,
                                  [old EXCEPT !.fields =
                                      setFields(@, << <<cmd.args[1],
                                          Sprintd(cur.val.val + cmd.args[2].val)>> >>)])
                      : cur \in {IF cmd.args[1] \in DOMAIN old.fields
                                 THEN Decode(old.fields[cmd.args[1]])
                                 ELSE [err |-> FALSE, val |-> IntV(0)]} })
      [] cmd.command = "PEXPIRE" ->
            IF id \notin DOMAIN rowsT THEN rowsT
            ELSE IF cmd.args[1] <= 0 THEN RemoveKey(rowsT, id)
            ELSE SetKey(rowsT, id, [rowsT[id] EXCEPT !.ttl = TRUE])
      [] OTHER -> rowsT

RECURSIVE ApplyCommands(_, _, _)
ApplyCommands(rowsT, id, cmds) ==
    IF cmds = <<>> THEN rowsT
    ELSE ApplyCommands(ApplyCommand(rowsT, id, Head(cmds)), id, Tail(cmds))

(***************************************************************************)
(* changeSet.Execute, first transaction: for every change the HMGET of its *)
(* indexable properties (UPDATE / DELETE) and its row commands, queued in  *)
(* this order and applied by one EXEC.  indexable holds, for every change, *)
(* the list indexableProperties returned for it.                           *)
(* Result: [rows, results].                                                *)
(***************************************************************************)
RECURSIVE executeLoop(_, _, _)
executeLoop(indexable, changes, acc) ==
    IF Len(acc.results) + acc.skipped = Len(changes) THEN acc
    ELSE The({ The({ executeLoop(indexable, changes,
                        [rows |-> ApplyCommands(acc.rows, rc.objectId, commands(rc).cmds),
                         skipped |-> IF Len(props) = 0 THEN acc.skipped + 1
                                     ELSE acc.skipped,
                         results |->
                             IF Len(props) = 0 THEN acc.results
                             ELSE Append(acc.results,
                                 IF rc.changeType \in {"update", "delete"}
                                 THEN [properties |-> props,
                                       hasOld |-> TRUE,
                                       olds |-> HMGET(acc.rows, rc.objectId, props),
                                       change |-> rc]
                                 ELSE [properties |-> props,
                                       hasOld |-> FALSE,
                                       olds |-> <<>>, change |-> rc])])
                     : rc \in {changes[k]}, props \in {indexable[k]} })
               : k \in {Len(acc.results) + acc.skipped + 1} })

ExecuteRows(rowsT, indexable, changes) ==
    The({ [rows |-> r.rows, results |-> r.results]
          : r \in {executeLoop(indexable, changes,
                               [rows |-> rowsT, skipped |-> 0, results |-> <<>>])} })

(***************************************************************************)
(* changeSet.Execute up to its first EXEC when no other goroutine of the   *)
(* process calls indexableProperties meanwhile.                            *)
(* Result: [err, rows, cache, results]; on err nothing is applied to the   *)
(* rows (the transaction is discarded) but the propCache keeps what was    *)
(* memoized.                                                               *)
(***************************************************************************)
RECURSIVE propsAlone(_, _, _)
propsAlone(desc, changes, acc) ==
    IF Len(acc.indexable) = Len(changes) \/ acc.err THEN acc
    ELSE The({ The({ propsAlone(desc, changes,
                                [err |-> commands(rc).err,
                                 cache |-> ip.cache,
                                 indexable |-> Append(acc.indexable, ip.props)])
                     : ip \in {indexableProperties(desc, acc.cache, rc)} })
               : rc \in {changes[Len(acc.indexable) + 1]} })

ExecuteAlone(desc, rowsT, cache, changes) ==
    The({ IF p.err
          THEN [err |-> TRUE, rows |-> rowsT, cache |-> p.cache, results |-> <<>>]
          ELSE The({ [err |-> FALSE, rows |-> r.rows, cache |-> p.cache,
                      results |-> r.results]
                     : r \in {ExecuteRows(rowsT, p.indexable, changes)} })
          : p \in {propsAlone(desc, changes,
                              [err |-> FALSE, cache |-> cache, indexable |-> <<>>])} })

(***************************************************************************)
(* changeResult.getDiffs: [err, panic, id, changeType, diffs] where diffs  *)
(* maps every indexable property to its prepared old and new value         *)
(***************************************************************************)
\* the value of the last change of the list on property p
RECURSIVE lastChange(_, _, _)
lastChange(changes, p, n) ==
    IF n = 0 THEN [found |-> FALSE, val |-> Nil]
    ELSE IF changes[n].Property = p THEN [found |-> TRUE, val |-> changes[n].Value]
    ELSE lastChange(changes, p, n - 1)

getDiffs(cr) ==
    LET props == cr.properties
        idxOf(p) == CHOOSE i \in DOMAIN props : props[i] = p
        loadOnly(p) == ~Contains(cr.change.changedProperties, p)
        new(p) == LET lc == lastChange(cr.change.changes, p, Len(cr.change.changes))
                  IN  IF cr.change.changeType # "delete" /\ lc.found THEN lc.val ELSE Nil
        \* [err, decode, oldVal, newVal] of property p; decode is the
        \* outcome of the Decode of its old value
        pd(p) ==
            The({ The({ [err |-> old.err \/ o.err \/ n.err,
                         decode |-> old,
                         oldVal |-> o.val,
                         newVal |-> IF loadOnly(p) /\ cr.change.changeType # "delete"
                                    THEN o.val ELSE n.val]
                        : o \in {prepareValue(old.val)},
                          n \in {prepareValue(new(p))} })
                  : old \in {IF cr.hasOld /\ cr.olds[idxOf(p)] # NullReply
                             THEN Decode(cr.olds[idxOf(p)])
                             ELSE [err |-> FALSE, val |-> Nil]} })
        \* change.Value != pd.oldVal compares two interfaces: when both hold
        \* a Binary, a Set, a Map or a List, types that cannot be compared,
        \* the comparison panics.  It is reached when every old value has
        \* been decoded.
        uncomparable(ds) ==
            /\ cr.change.changeType # "delete"
            /\ \A p \in Elems(props) : ~ds[p].decode.err
            /\ \E i \in DOMAIN cr.change.changes :
                  LET ch == cr.change.changes[i]
                  IN  /\ ch.Property \in Elems(props)
                      /\ ch.Value.type \in {"Binary", "Set", "Map", "List"}
                      /\ ds[ch.Property].decode.val.type = ch.Value.type
    IN  The({ [err |-> uncomparable(ds) \/ \E p \in Elems(props) : ds[p].err,
               panic |-> \/ uncomparable(ds)
                         \/ \E i \in DOMAIN props :
                               /\ Panics(ds[props[i]].decode)
                               /\ \A k \in 1..(i - 1) : ~ds[props[k]].decode.err,
               id |-> cr.change.objectId,
               changeType |-> cr.change.changeType,
               diffs |-> [p \in Elems(props) |->
                            [oldVal |-> ds[p].oldVal, newVal |-> ds[p].newVal]]]
              : ds \in {[p \in Elems(props) |-> pd(p)]} })

\* entityDiff.vals
vals(eDiff, newVals) ==
    [p \in DOMAIN eDiff.diffs |->
        IF newVals THEN eDiff.diffs[p].newVal ELSE eDiff.diffs[p].oldVal]

\* CompoundIndex.diffEntry
diffEntry(properties, eDiff, useNew) == entry(properties, eDiff.id, vals(eDiff, useNew))

\* basePrimaryIndex.Pipeline: the entries of the ZREM and of the ZADD it
\* queues for the diffs
PrimaryPipeline(diffs) ==
    [del |-> {diffs[i].id : i \in {j \in DOMAIN diffs : diffs[j].changeType = "delete"}},
     add |-> {diffs[i].id : i \in {j \in DOMAIN diffs : diffs[j].changeType # "delete"}}]

\* CompoundIndex.Pipeline: the entries of the ZREM and of the ZADD it queues
CompoundPipeline(properties, diffs) ==
    LET delEntry(i) == diffEntry(properties, diffs[i], FALSE)
        addEntry(i) == diffEntry(properties, diffs[i], TRUE)
        isDel(i) == diffs[i].changeType = "delete"
    IN  [del |-> {delEntry(i) : i \in {j \in DOMAIN diffs :
                     /\ delEntry(j) # <<>>
                     /\ (isDel(j) \/ addEntry(j) # delEntry(j))}},
         add |-> {addEntry(i) : i \in {j \in DOMAIN diffs :
                     /\ ~isDel(j)
                     /\ addEntry(j) # delEntry(j)
                     /\ addEntry(j) # <<>>}}]

\* ZREM then ZADD on one sorted set
ApplyPipeline(zset, pl) == (zset \ pl.del) \cup pl.add

\* changeSet.indexChanges: [err, panic, zprimary, zindex], the table's
\* primary set and secondary index sets after the index transaction.  The
\* first getDiffs that fails ends it, with its error or with its panic.
indexChanges(desc, zprim, zidx, results) ==
    The({ IF \E i \in DOMAIN ds : ds[i].err
          THEN [err |-> TRUE,
                panic |-> ds[CHOOSE i \in DOMAIN ds :
                               ds[i].err /\ \A k \in 1..(i - 1) : ~ds[k].err].panic,
                zprimary |-> zprim, zindex |-> zidx]
          ELSE [err |-> FALSE, panic |-> FALSE,
                zprimary |-> ApplyPipeline(zprim, PrimaryPipeline(ds)),
                zindex |-> [i \in DOMAIN zidx |->
                              ApplyPipeline(zidx[i], CompoundPipeline(desc.indexes[i], ds))]]
          : ds \in {[i \in DOMAIN results |-> getDiffs(results[i])]} })

(***************************************************************************)
(* Table (table.go)                                                        *)
(***************************************************************************)
\* table.selectIndex: the number of the first index with the highest match
\* score, 0 when no index matches
RECURSIVE selectIndexLoop(_, _, _, _, _)
selectIndexLoop(desc, filters, order, i, best) ==
    IF i > Len(desc.indexes) THEN best
    ELSE LET m == CompoundMatches(desc.indexes[i], filters, order)
             better ==
                 /\ m.match
                 /\ \/ best = 0
                    \/ LET b == CompoundMatches(desc.indexes[best], filters, order)
                       IN  m.matches * b.of > b.matches * m.of
         IN  selectIndexLoop(desc, filters, order, i + 1, IF better THEN i ELSE best)

\* table.selectIndex without the comparison of scores: the first index that
\* matches
selectIndexFirstMatch(desc, filters, order) ==
    LET ms == {i \in DOMAIN desc.indexes :
                 CompoundMatches(desc.indexes[i], filters, order).match}
    IN  IF ms = {} THEN 0 ELSE CHOOSE i \in ms : \A k \in ms : i <= k

selectIndex(desc, filters, order) == selectIndexLoop(desc, filters, order, 1, 0)

\* table.getIds: the trimming of the ids the primary index found
trimIds(ids, offset, limit) ==
    IF Len(ids) > 0 /\ limit > 0 /\ offset >= 0 /\ Len(ids) > offset + limit
    THEN Slice(ids, offset, limit)
    ELSE ids

\* the change list table.Put builds for one entity: a SET per property and,
\* last, the expiry
putChanges(ent) ==
    LET ps == SelectSeq(PropOrder, LAMBDA p : p \in DOMAIN ent.Properties)
    IN  [i \in DOMAIN ps |-> Set(ps[i], ent.Properties[ps[i]])]
        \o (IF ent.TTL > 0 THEN <<Expire(ent.TTL)>> ELSE <<>>)

\* primaryIndex.GenerateId of the table's primary
GenerateId(desc, ent, uid) ==
    IF desc.primary.type = "compound"
    THEN CompoundGenerateId(desc.primary.columns, ent)
    ELSE RandomGenerateId(ent, uid)

\* the loop of table.Put over the entities: [err, ids, changes]; uids are
\* the random ids drawn for the entities
putLoop(desc, ents, uids) ==
    LET g(i) == GenerateId(desc, ents[i], uids[i])
        ct(i) == IF g(i).id # ents[i].Id THEN "insert" ELSE "update"
    IN  [err |-> \E i \in DOMAIN ents : g(i).err,
         ids |-> [i \in DOMAIN ents |-> g(i).id],
         changes |-> [i \in DOMAIN ents |->
                        newEntityChange(g(i).id, ct(i), putChanges(ents[i]))]]

\* what a call that panics yields instead of its result
Panic == [panic |-> TRUE]

\* table.readEntity on the reply of values for the property names keys: the
\* entity of id with the properties whose value is not nil and decodes.
\* The id key is passed over and so is a nil value; the Decode of a value
\* that is empty panics, and readEntity with it.
readEntity(id, keys, reply) ==
    The({ IF \E i \in DOMAIN keys : keys[i] # IdKey /\ Panics(ds[i])
          THEN Panic
          ELSE The({ [Id |-> id,
                      Properties |->
                         [p \in {keys[i] : i \in ok} |->
                             ds[CHOOSE i \in ok : keys[i] = p].val]]
                     : ok \in {{i \in DOMAIN keys :
                                  /\ keys[i] # IdKey
                                  /\ reply[i] # NullReply
                                  /\ ~ds[i].err}} })
          : ds \in {<<>> \o [i \in DOMAIN keys |->
                                IF reply[i] = NullReply THEN [err |-> FALSE, val |-> Nil]
                                ELSE Decode(reply[i])]} })

\* table.load for one id: the entities (none or one) appended for it.  With
\* no property list the reply is that of HGETALL, which is empty when there
\* is no row; with one it is that of HMGET zipped with the names, which has
\* two values per requested property whether or not there is a row.
loadOne(rowsT, id, properties) ==
    IF Len(properties) = 0 /\ id \notin DOMAIN rowsT THEN <<>>
    ELSE The({ <<readEntity(id, keys, HMGET(rowsT, id, keys))>>
               : keys \in {IF Len(properties) = 0
                           THEN SelectSeq(PropOrder,
                                          LAMBDA p : p \in DOMAIN rowsT[id].fields)
                           ELSE properties} })

\* table.load when every command of its batch sees the rows rowsT: the
\* entities of ids in order
load(rowsT, ids, properties) ==
    The({ Flatten(ss)
          : ss \in {[i \in DOMAIN ids |-> loadOne(rowsT, ids[i], properties)]} })

\* table.load panics: readEntity has panicked on one of the replies
Panicked(ents) == \E i \in DOMAIN ents : Panics(ents[i])

(***************************************************************************)
(* State                                                                   *)
(***************************************************************************)
VARIABLES
    tables,     \* Driver.tables: table name -> descriptor
    rows,       \* redis row hashes: table name -> (id -> [fields, ttl])
    zprimary,   \* the <table>::PRIMARY sorted sets: table name -> set of ids
    zindex,     \* the k:<table>/... sorted sets: table name -> <<set of entries>>
    propCache,  \* the process-wide indexableCache: hash -> property list
    pc,         \* per client: the step its operation is at
    op,         \* per client: the operation in progress
    resp,       \* per client: the last response
    nextUid,    \* number of random ids drawn so far
    nops        \* number of operations started so far

vars == <<tables, rows, zprimary, zindex, propCache, pc, op, resp, nextUid, nops>>

store == <<rows, zprimary, zindex>>

\* DefaultConfig.DeleteChunkSize as configured in the model
DeleteChunkSize == 1

\* text values "a" and "B", the latter normalising to "b"
va == Text(<<97>>)

vB == Text(<<66>>)

\* the k-th random id drawn by randomPrimaryIndex.GenerateId: "g1", "g2", ...
Uid(k) == <<103, 48 + k>>

\* the operation in progress.  ents / filters / offset / limit / order /
\* uchanges / props are the request;
\* ids, total, repairs, results are the locals of the operation; deleted is
\* the running total of table.Delete.  A batch in flight is kept with the
\* replies it has so far: keys and exists are the keys of the batch of
\* basePrimaryIndex.find and the replies of their EXISTS, lex is the index
\* and the bounds of the ZLEXCOUNT that CompoundIndex.Find has queued, and
\* loaded holds what table.load makes of the replies for the first ids.
\* changes is the change set changeSet.Execute works on and indexable the
\* lists indexableProperties has returned for its first changes.  pre (the
\* table's rows before the current change set) and before (the number of
\* rows when the operation started) are history kept for the properties.
NoOp ==
    [kind |-> "none", table |-> "", ents |-> <<>>, filters |-> EmptyMap,
     offset |-> 0, limit |-> 0, order |-> NoOrder,
     uchanges |-> <<>>, ids |-> <<>>, total |-> 0, repairs |-> <<>>,
     results |-> <<>>, nchanges |-> 0, deleted |-> 0, pre |-> EmptyMap,
     before |-> 0, keys |-> <<>>, exists |-> <<>>, lex |-> <<>>,
     props |-> <<>>, loaded |-> <<>>, changes |-> <<>>, indexable |-> <<>>]

NoResp == [kind |-> "none", err |-> FALSE, noIndex |-> FALSE, ids |-> <<>>,
           entities |-> <<>>, num |-> 0, total |-> 0, changed |-> 0]

Resp(kind, err, ids, num, total, changed) ==
    [kind |-> kind, err |-> err, noIndex |-> FALSE, ids |-> ids,
     entities |-> <<>>, num |-> num, total |-> total, changed |-> changed]

\* what the client gets when the handler of its request panics:
\* handleConnection recovers, writes no response and closes the connection
ConnectionClosed == [NoResp EXCEPT !.kind = "closed", !.err = TRUE]

\* the tables of the driver: Users with a random primary and indexes on
\* [name] and [name, city]; Apps with a compound primary on [pkg] and an
\* index on [city]
UsersDesc ==
    [primary |-> [type |-> "random", columns |-> <<>>],
     indexes |-> << <<"name">>, <<"name", "city">> >>]

AppsDesc ==
    [primary |-> [type |-> "compound", columns |-> <<"pkg">>],
     indexes |-> << <<"city">> >>]

Schema == [t \in {"Users", "Apps"} |-> IF t = "Users" THEN UsersDesc ELSE AppsDesc]

InitWith(schema, clients) ==
    /\ tables = schema
    /\ rows = [t \in DOMAIN schema |-> EmptyMap]
    /\ zprimary = [t \in DOMAIN schema |-> {}]
    /\ zindex = [t \in DOMAIN schema |-> [i \in DOMAIN schema[t].indexes |-> {}]]
    /\ propCache = EmptyMap
    /\ pc = [c \in clients |-> "idle"]
    /\ op = [c \in clients |-> NoOp]
    /\ resp = [c \in clients |-> NoResp]
    /\ nextUid = 0
    /\ nops = 0

Init == InitWith(Schema, {"c1"})

Clients == DOMAIN pc

Tables == DOMAIN tables

Finish(c, r) ==
    /\ pc' = [pc EXCEPT ![c] = "idle"]
    /\ op' = [op EXCEPT ![c] = NoOp]
    /\ resp' = [resp EXCEPT ![c] = r]

\* a panic in a goroutine that recovers none ends the process: every
\* goroutine of it stops where it is
Crash == pc' = [p \in DOMAIN pc |-> "crashed"]

Begin(c) ==
    /\ pc[c] = "idle"
    /\ nops < MaxOps
    /\ nops' = nops + 1

(***************************************************************************)
(* Inputs of the operations                                                *)
(***************************************************************************)
Ent(id, props, ttl) == [Id |-> id, Properties |-> props, TTL |-> ttl]

KnownIds(t) == DOMAIN rows[t] \cup zprimary[t]

\* the batches a client may put into table t
PutBatches(t) ==
    IF t = "Users"
    THEN LET e1 == Ent(<<>>, [name |-> va], 0)
             e2 == Ent(<<>>, [name |-> vB, city |-> va], 0)
             e3 == Ent(<<>>, EmptyMap, 0)
             e4 == Ent(<<>>, [name |-> va], 1)
             e5 == Ent(<<>>, [name |-> PosInf], 0)
         IN  {<<e1>>, <<e2>>, <<e3>>, <<e4>>, <<e5>>, <<e1, e2>>}
             \cup {<<Ent(id, [name |-> vB], 0)>> : id \in KnownIds(t)}
    ELSE {<<Ent(<<>>, [pkg |-> va, city |-> va], 0)>>,
          <<Ent(<<>>, [pkg |-> va, city |-> vB], 0)>>,
          <<Ent(<<97, PIPE>>, [pkg |-> va, city |-> vB], 0)>>,
          <<Ent(<<>>, [pkg |-> vB, city |-> va], 0), Ent(<<>>, [city |-> va], 0)>>}

\* the filter sets a client may send for table t
FilterSets(t) ==
    {[id |-> Filter(IdKey, "ALL", <<>>)]}
    \cup {[id |-> Filter(IdKey, "IN", <<k>>)] : k \in KnownIds(t)}
    \cup (IF t = "Users"
          THEN {[name |-> Filter("name", "=", <<va>>)],
                [name |-> Filter("name", "=", <<vB>>)],
                [name |-> Filter("name", "=", <<vB>>),
                 city |-> Filter("city", "=", <<va>>)],
                [city |-> Filter("city", "=", <<va>>)]}
          ELSE {[pkg |-> Filter("pkg", "IN", <<va, vB>>)],
                [city |-> Filter("city", "=", <<va>>)]})

\* the change lists a client may send in an Update
ChangeLists ==
    {<<Set("name", va)>>, <<Set("name", vB)>>, <<Expire(1)>>,
     <<Change("name", Nil, "PDEL")>>, <<Change("name", va, "SADD")>>}

\* the orderings and pagings a client may send in a Get
Orderings(t) ==
    {NoOrder} \cup (IF t = "Users"
                    THEN {[By |-> "name", Ascending |-> FALSE],
                          [By |-> "name", Ascending |-> TRUE]}
                    ELSE {})

Pagings == {<<0, -1>>, <<1, 1>>}

\* the random ids drawn for a batch: the entities without an id take the
\* next unused ids in turn
BatchUids(ents) ==
    [i \in DOMAIN ents |->
        Uid(nextUid + Cardinality({j \in 1..i : ents[j].Id = <<>>}))]

DrawnUids(desc, ents) ==
    IF desc.primary.type = "random"
    THEN Cardinality({j \in DOMAIN ents : ents[j].Id = <<>>})
    ELSE 0

(***************************************************************************)
(* Operations.  Every action is one command that redis executes for the    *)
(* client (a transaction, MULTI to EXEC, is executed as one), together     *)
(* with the local computation around it.  The commands of a Batch are      *)
(* pipelined without MULTI, so each of them is an action of its own and    *)
(* the commands of other clients can fall between them.                    *)
(***************************************************************************)
ErrResp(kind) == Resp(kind, TRUE, <<>>, 0, 0, 0)

\* the response that carries errors.NoIndexError
NoIndexResp(kind) == [ErrResp(kind) EXCEPT !.noIndex = TRUE]

\* table.Put with the primary index written before the row transaction is
\* executed: the ids are added to the primary set while the rows are not
\* stored yet
PutIndexFirst(c, t, ents) ==
    /\ Begin(c)
    /\ \E desc \in {tables[t]} :
       \E pl \in {putLoop(desc, ents, BatchUids(ents))} :
       \E r \in {ExecuteAlone(desc, rows[t], propCache, pl.changes)} :
        /\ IF pl.err \/ r.err
           THEN /\ Finish(c, ErrResp("put"))
                /\ UNCHANGED <<rows, propCache, nextUid, zprimary>>
           ELSE /\ nextUid' = nextUid + DrawnUids(desc, ents)
                /\ propCache' = r.cache
                /\ zprimary' = [zprimary EXCEPT ![t] = @ \cup Elems(pl.ids)]
                /\ pc' = [pc EXCEPT ![c] = "index"]
                /\ op' = [op EXCEPT ![c] =
                            [NoOp EXCEPT !.kind = "put", !.table = t, !.ents = ents,
                                         !.ids = pl.ids, !.results = r.results,
                                         !.nchanges = Len(pl.changes),
                                         !.pre = rows[t],
                                         !.before = Cardinality(DOMAIN rows[t])]]
                /\ UNCHANGED <<rows, resp>>
        /\ UNCHANGED <<tables, zindex>>

\* a table.Put that, when the id of an entity cannot be generated, has
\* already written the rows of the entities before it
PutEachInTurn(c, t, ents) ==
    /\ Begin(c)
    /\ \E desc \in {tables[t]} :
       \E pl \in {putLoop(desc, ents, BatchUids(ents))} :
       \E r \in {ExecuteAlone(desc, rows[t], propCache, pl.changes)} :
        LET bad == {i \in DOMAIN ents : GenerateId(desc, ents[i], <<>>).err}
            before == SubSeq(pl.changes, 1, (CHOOSE i \in bad : \A j \in bad : i <= j) - 1)
        IN  /\ IF pl.err
               THEN /\ Finish(c, ErrResp("put"))
                    /\ rows' = [rows EXCEPT ![t] =
                                   ExecuteAlone(desc, rows[t], propCache, before).rows]
                    /\ UNCHANGED <<propCache, nextUid>>
               ELSE /\ nextUid' = nextUid + DrawnUids(desc, ents)
                    /\ propCache' = r.cache
                    /\ IF r.err
                       THEN /\ Finish(c, ErrResp("put"))
                            /\ UNCHANGED rows
                       ELSE /\ rows' = [rows EXCEPT ![t] = r.rows]
                            /\ pc' = [pc EXCEPT ![c] = "index"]
                            /\ op' = [op EXCEPT ![c] =
                                        [NoOp EXCEPT !.kind = "put", !.table = t,
                                                     !.ents = ents,
                                                     !.ids = pl.ids,
                                                     !.results = r.results,
                                                     !.nchanges = Len(pl.changes),
                                                     !.pre = rows[t],
                                                     !.before = Cardinality(DOMAIN rows[t])]]
                            /\ UNCHANGED resp
            /\ UNCHANGED <<tables, zprimary, zindex>>

\* changeSet.Execute begins for the change set of o: the indexable
\* properties of its changes are asked for in turn, then the transaction
\* is executed
ToExecute(p, o) ==
    /\ pc' = [pc EXCEPT ![p] = IF Len(o.changes) = 0 THEN "rows" ELSE "props"]
    /\ op' = [op EXCEPT ![p] = o]
    /\ UNCHANGED resp

\* table.Put up to changeSet.Execute: ids are generated and the change set
\* is built
Put(c, t, ents) ==
    /\ Begin(c)
    /\ \E desc \in {tables[t]} :
       \E pl \in {putLoop(desc, ents, BatchUids(ents))} :
        /\ IF pl.err
           THEN /\ Finish(c, ErrResp("put"))
                /\ UNCHANGED nextUid
           ELSE /\ nextUid' = nextUid + DrawnUids(desc, ents)
                /\ ToExecute(c, [NoOp EXCEPT !.kind = "put", !.table = t,
                                             !.ents = ents,
                                             !.ids = pl.ids,
                                             !.changes = pl.changes,
                                             !.nchanges = Len(pl.changes),
                                             !.before = Cardinality(DOMAIN rows[t])])
        /\ UNCHANGED <<tables, rows, zprimary, zindex, propCache>>

\* changeSet.Execute after indexableProperties has returned for the change
\* whose list is the last of o.indexable: the commands of the change are
\* queued, and Execute returns when they cannot be built
AfterProps(p, o) ==
    IF commands(o.changes[Len(o.indexable)]).err
    THEN Finish(p, ErrResp(o.kind))
    ELSE /\ pc' = [pc EXCEPT ![p] = IF Len(o.indexable) = Len(o.changes)
                                    THEN "rows" ELSE "props"]
         /\ op' = [op EXCEPT ![p] = o]
         /\ UNCHANGED resp

\* changeSet.indexableProperties for the next change of the set, up to the
\* end of propCache.get: a cached list is returned; else the list is
\* computed, and stored by the next step
PropsGet(p) ==
    /\ pc[p] = "props"
    /\ \E o \in {op[p]} :
       \E rc \in {o.changes[Len(o.indexable) + 1]} :
       \E h \in {hash(rc.changedProperties)} :
          IF h \in DOMAIN propCache
          THEN AfterProps(p, [o EXCEPT !.indexable = Append(@, propCache[h])])
          ELSE /\ pc' = [pc EXCEPT ![p] = "cache"]
               /\ op' = [op EXCEPT ![p].indexable =
                            Append(@, indexableLoop(tables[o.table], rc,
                                                    PrimaryProperties(tables[o.table]),
                                                    1, 1))]
               /\ UNCHANGED resp
    /\ UNCHANGED <<tables, rows, zprimary, zindex, propCache, nextUid, nops>>

\* propCache.set of the list computed for the change, and the return of
\* changeSet.indexableProperties
PropsSet(p) ==
    /\ pc[p] = "cache"
    /\ \E o \in {op[p]} :
       \E h \in {hash(o.changes[Len(o.indexable)].changedProperties)} :
          /\ propCache' = [k \in DOMAIN propCache \cup {h} |->
                              IF k = h THEN o.indexable[Len(o.indexable)]
                              ELSE propCache[k]]
          /\ AfterProps(p, o)
    /\ UNCHANGED <<tables, rows, zprimary, zindex, nextUid, nops>>

\* the change set table.Update / table.Delete build for the resolved ids
opChanges(o) ==
    [i \in DOMAIN o.ids |->
        IF o.kind = "update"
        THEN newEntityChange(o.ids[i], "update", o.uchanges)
        ELSE newEntityChange(o.ids[i], "delete", <<Change("", Nil, "DEL")>>)]

\* what an operation does once its ids are resolved and read repair is done
AfterIds(c, o) ==
    CASE o.kind = "get" ->
            /\ pc' = [pc EXCEPT ![c] = "load"]
            /\ op' = [op EXCEPT ![c] = o]
            /\ UNCHANGED resp
      [] o.kind = "update" ->
            IF Len(o.ids) = 0
            THEN Finish(c, Resp("update", FALSE, <<>>, 0, 0, 0))
            ELSE ToExecute(c, [o EXCEPT !.changes = opChanges(o), !.indexable = <<>>])
      [] o.kind = "delete" ->
            IF Len(o.ids) = 0
            THEN Finish(c, Resp("delete", FALSE, <<>>, o.deleted, 0, o.deleted))
            ELSE ToExecute(c, [o EXCEPT !.changes = opChanges(o), !.indexable = <<>>])

\* the next command of the batch of basePrimaryIndex.find for operation o of
\* client c: the EXISTS of the next key or, after the last key, ZCARD of the
\* primary set.  The replies are then sorted into ids and dangling ids, the
\* ids are trimmed by table.getIds, and the dangling ids are left to the
\* read-repair command.
FindCommand(c, o) ==
    IF Len(o.exists) < Len(o.keys)
    THEN /\ pc' = [pc EXCEPT ![c] = "find"]
         /\ op' = [op EXCEPT ![c] =
                     [o EXCEPT !.exists =
                         Append(@, EXISTS(rows[o.table], o.keys[Len(o.exists) + 1]))]]
         /\ UNCHANGED resp
    ELSE \E r \in {findReplies(o.keys, o.exists, ZCARD(zprimary[o.table]))} :
            \E o2 \in {[o EXCEPT !.ids = trimIds(r.ids, o.offset, o.limit),
                                  !.total = r.total, !.repairs = r.repairs,
                                  !.keys = <<>>, !.exists = <<>>]} :
               IF Len(r.repairs) > 0
               THEN /\ pc' = [pc EXCEPT ![c] = "repair"]
                    /\ op' = [op EXCEPT ![c] = o2]
                    /\ UNCHANGED resp
               ELSE AfterIds(c, o2)

\* table.getIds for operation o of client c up to its first command: the
\* transaction of basePrimaryIndex.scan for the ALL filter, the first command
\* of the batch of basePrimaryIndex.find for other filters on the primary,
\* or the range command of the batch of CompoundIndex.Find
ResolveIds(c, o0, offset, limit, order) ==
    LET o == [o0 EXCEPT !.offset = offset, !.limit = limit, !.order = order,
                        !.ids = <<>>, !.total = 0, !.repairs = <<>>]
        t == o.table
        desc == tables[t]
    IN  IF PrimaryMatches(desc, o.filters)
        THEN \E f \in {PrimaryFind(desc, o.filters)} :
                IF f.err THEN Finish(c, ErrResp(o.kind))
                ELSE IF f.scan
                THEN /\ pc' = [pc EXCEPT ![c] = "find"]
                     /\ op' = [op EXCEPT ![c] =
                                 [o EXCEPT !.keys = primaryScan(zprimary[t], offset,
                                                               limit, order),
                                           !.exists = <<>>]]
                     /\ UNCHANGED resp
                ELSE FindCommand(c, [o EXCEPT !.keys = f.ids, !.exists = <<>>])
        ELSE \E i \in {selectIndex(desc, o.filters, order)} :
                IF i = 0 THEN Finish(c, NoIndexResp(o.kind))
                ELSE \E q \in {CompoundFindCommands(desc.indexes[i], o.filters, offset,
                                                    limit, order)} :
                        IF q.err THEN Finish(c, ErrResp(o.kind))
                        ELSE \E r \in {CompoundFindRange(zindex[t][i], q)} :
                                IF r.err THEN Finish(c, ErrResp(o.kind))
                                ELSE /\ pc' = [pc EXCEPT ![c] = "count"]
                                     /\ op' = [op EXCEPT ![c] =
                                                 [o EXCEPT !.ids = CompoundFindIds(r.val),
                                                           !.lex = <<i, q.arg1, q.arg2>>]]
                                     /\ UNCHANGED resp

\* the request of an operation on table t as it starts
NewOp(kind, t, filters) ==
    [NoOp EXCEPT !.kind = kind, !.table = t, !.filters = filters,
                 !.before = Cardinality(DOMAIN rows[t])]

\* table.Get up to the first command of table.getIds
Get(c, t, filters, offset, limit, order) ==
    /\ Begin(c)
    /\ ResolveIds(c, NewOp("get", t, filters), offset, limit, order)
    /\ UNCHANGED <<tables, rows, zprimary, zindex, propCache, nextUid>>

\* table.Update up to the first command of table.getIds, which is called
\* with no limit
Update(c, t, filters, changes) ==
    /\ Begin(c)
    /\ ResolveIds(c, [NewOp("update", t, filters) EXCEPT !.uchanges = changes],
                  0, -1, NoOrder)
    /\ UNCHANGED <<tables, rows, zprimary, zindex, propCache, nextUid>>

\* table.Delete up to the first command of table.getIds for the first chunk
Delete(c, t, filters) ==
    /\ Begin(c)
    /\ ResolveIds(c, NewOp("delete", t, filters), 0, DeleteChunkSize, NoOrder)
    /\ UNCHANGED <<tables, rows, zprimary, zindex, propCache, nextUid>>

\* table.Delete: the next iteration of the chunk loop; the loop has no
\* bound and ends only when getIds fails or returns no ids
DeleteLoop(c) ==
    /\ pc[c] = "loop"
    /\ ResolveIds(c, op[c], 0, DeleteChunkSize, NoOrder)
    /\ UNCHANGED <<tables, rows, zprimary, zindex, propCache, nextUid, nops>>

\* the next command of the batch of basePrimaryIndex.find
Find(c) ==
    /\ pc[c] = "find"
    /\ FindCommand(c, op[c])
    /\ UNCHANGED <<tables, rows, zprimary, zindex, propCache, nextUid, nops>>

\* the ZLEXCOUNT of the batch of CompoundIndex.Find, and the end of
\* table.getIds
Count(c) ==
    /\ pc[c] = "count"
    /\ \E n \in {ZLEXCOUNT(zindex[op[c].table][op[c].lex[1]], op[c].lex[2],
                            op[c].lex[3])} :
          IF n.err THEN Finish(c, ErrResp(op[c].kind))
          ELSE AfterIds(c, [op[c] EXCEPT !.total = n.val, !.lex = <<>>])
    /\ UNCHANGED <<tables, rows, zprimary, zindex, propCache, nextUid, nops>>

\* basePrimaryIndex.removeEntries: the ZREM that read-repairs the dangling
\* primary ids
Repair(c) ==
    /\ pc[c] = "repair"
    /\ zprimary' = [zprimary EXCEPT ![op[c].table] = @ \ Elems(op[c].repairs)]
    /\ AfterIds(c, [op[c] EXCEPT !.repairs = <<>>])
    /\ UNCHANGED <<tables, rows, zindex, propCache, nextUid, nops>>

\* the next command of the batch of table.load for the requested properties
\* (HGETALL of the next id, or HMGET with a property list) and, after the
\* last, the Get response: the ids and the entities returned.  The property
\* list is part of the request; it is drawn when the batch is built.  When
\* readEntity panics on a reply the client gets no response.
LoadProperties(c, properties) ==
    LET o == op[c]
        n == Len(o.loaded)
    IN  /\ pc[c] = "load"
        /\ n = 0 \/ properties = o.props
        /\ \E got \in {IF Len(o.ids) = 0 THEN <<>>
                        ELSE Append(o.loaded,
                                    loadOne(rows[o.table], o.ids[n + 1], properties))} :
              IF n + 1 < Len(o.ids)
              THEN /\ op' = [op EXCEPT ![c] =
                               [o EXCEPT !.props = properties, !.loaded = got]]
                   /\ UNCHANGED <<pc, resp>>
              ELSE \E es \in {Flatten(got)} :
                      Finish(c, IF Panicked(es) THEN ConnectionClosed
                                ELSE [Resp("get", FALSE, [i \in DOMAIN es |-> es[i].Id],
                                           0, o.total, 0) EXCEPT !.entities = es])
        /\ UNCHANGED <<tables, rows, zprimary, zindex, propCache, nextUid, nops>>

\* a Get without a property list
Load(c) == LoadProperties(c, <<>>)

\* changeSet.Execute: the EXEC of its first transaction
ExecRows(c) ==
    LET o == op[c]
        t == o.table
    IN  /\ pc[c] = "rows"
        /\ \E r \in {ExecuteRows(rows[t], o.indexable, o.changes)} :
           /\ rows' = [rows EXCEPT ![t] = r.rows]
           /\ pc' = [pc EXCEPT ![c] = "index"]
           /\ op' = [op EXCEPT ![c] = [o EXCEPT !.results = r.results,
                                                !.nchanges = Len(o.changes),
                                                !.pre = rows[t]]]
           /\ UNCHANGED resp
        /\ UNCHANGED <<tables, zprimary, zindex, propCache, nextUid, nops>>

\* changeSet.indexChanges with its own transaction, and the end of
\* changeSet.Execute and of the operation that ran it; when getDiffs panics
\* on an old value the client gets no response
ExecIndex(c) ==
    LET o == op[c]
        t == o.table
    IN  /\ pc[c] = "index"
        /\ \E ic \in {indexChanges(tables[t], zprimary[t], zindex[t], o.results)} :
           IF ic.err
           THEN /\ Finish(c, IF ic.panic THEN ConnectionClosed ELSE ErrResp(o.kind))
                /\ UNCHANGED <<zprimary, zindex>>
           ELSE /\ zprimary' = [zprimary EXCEPT ![t] = ic.zprimary]
                /\ zindex' = [zindex EXCEPT ![t] = ic.zindex]
                /\ CASE o.kind = "put" ->
                          Finish(c, Resp("put", FALSE, o.ids, 0, 0, o.nchanges))
                     [] o.kind = "update" ->
                          Finish(c, Resp("update", FALSE, o.ids, o.total, o.total,
                                         o.nchanges))
                     [] o.kind = "delete" ->
                          /\ pc' = [pc EXCEPT ![c] = "loop"]
                          /\ op' = [op EXCEPT ![c] =
                                      [o EXCEPT !.deleted = Min(@ + o.nchanges,
                                                                MaxTotal),
                                                !.results = <<>>]]
                          /\ UNCHANGED resp
        /\ UNCHANGED <<tables, rows, propCache, nextUid, nops>>

\* a row whose expiry is set expires
ExpireRow(t, id) ==
    /\ id \in DOMAIN rows[t]
    /\ rows[t][id].ttl
    /\ rows' = [rows EXCEPT ![t] = RemoveKey(@, id)]
    /\ UNCHANGED <<tables, zprimary, zindex, propCache, pc, op, resp, nextUid, nops>>

Next ==
    \/ \E c \in Clients, t \in Tables : \E ents \in PutBatches(t) : Put(c, t, ents)
    \/ \E c \in Clients, t \in Tables :
          \E f \in FilterSets(t), pg \in Pagings, o \in Orderings(t) :
             Get(c, t, f, pg[1], pg[2], o)
    \/ \E c \in Clients, t \in Tables :
          \E f \in FilterSets(t), chs \in ChangeLists : Update(c, t, f, chs)
    \/ \E c \in Clients, t \in Tables :
          \E f \in FilterSets(t) : Delete(c, t, f)
    \/ \E c \in Clients : DeleteLoop(c)
    \/ \E c \in Clients : Find(c)
    \/ \E c \in Clients : Count(c)
    \/ \E c \in Clients : Repair(c)
    \/ \E c \in Clients : Load(c)
    \/ \E c \in Clients : PropsGet(c)
    \/ \E c \in Clients : PropsSet(c)
    \/ \E c \in Clients : ExecRows(c)
    \/ \E c \in Clients : ExecIndex(c)
    \/ \E t \in Tables : \E id \in DOMAIN rows[t] : ExpireRow(t, id)

Spec == Init /\ [][Next]_vars

(***************************************************************************)
(* What the properties below speak about                                   *)
(***************************************************************************)
AllIdle == \A c \in Clients : pc[c] = "idle"

\* the stored (decoded) value of property p of row id; nil when not stored
StoredValue(rowsT, id, p) ==
    IF id \in DOMAIN rowsT /\ p \in DOMAIN rowsT[id].fields
    THEN Decode(rowsT[id].fields[p]).val
    ELSE Nil

\* does the stored row id satisfy the filter set?  Values are compared as
\* the indexes compare them, after normalisation.
Satisfies(rowsT, id, filters) ==
    \A p \in DOMAIN filters :
        LET f == filters[p]
        IN  IF f.Property = IdKey
            THEN f.Operator = "ALL" \/ \E n \in DOMAIN f.Values : f.Values[n] = id
            ELSE \E n \in DOMAIN f.Values :
                    prepareValue(StoredValue(rowsT, id, p)) = prepareValue(f.Values[n])

MatchingIds(rowsT, filters) == {id \in DOMAIN rowsT : Satisfies(rowsT, id, filters)}

\* What the calls that resolve ids return when every command they send sees
\* the same rows and sets, that is when no command of another client falls
\* between them.
\* CompoundIndex.Find: [err, ids, total]
CompoundFindAlone(properties, zset, filters, offset, limit, order) ==
    The({ IF q.err THEN [err |-> TRUE, ids |-> <<>>, total |-> 0]
          ELSE The({ IF r.err \/ n.err THEN [err |-> TRUE, ids |-> <<>>, total |-> 0]
                     ELSE [err |-> FALSE, ids |-> CompoundFindIds(r.val),
                           total |-> n.val] :
                     r \in {CompoundFindRange(zset, q)},
                     n \in {ZLEXCOUNT(zset, q.arg1, q.arg2)} }) :
          q \in {CompoundFindCommands(properties, filters, offset, limit, order)} })

\* the Find of the primary index: [err, ids, repairs, total]
PrimaryFindAlone(desc, rowsT, zprim, filters, offset, limit, order) ==
    The({ IF f.err THEN [err |-> TRUE, ids |-> <<>>, repairs |-> <<>>, total |-> 0]
          ELSE The({ [err |-> FALSE, ids |-> r.ids, repairs |-> r.repairs,
                      total |-> r.total] :
                     r \in {The({ findReplies(keys,
                                              [i \in DOMAIN keys |->
                                                  EXISTS(rowsT, keys[i])],
                                              ZCARD(zprim)) :
                                  keys \in {IF f.scan
                                            THEN primaryScan(zprim, offset, limit, order)
                                            ELSE f.ids} })} }) :
          f \in {PrimaryFind(desc, filters)} })

\* table.getIds: [err, noIndex, ids, total, repairs]
getIdsAlone(desc, rowsT, zprim, zidx, filters, offset, limit, order) ==
    IF PrimaryMatches(desc, filters)
    THEN The({ [err |-> r.err, noIndex |-> FALSE,
                ids |-> trimIds(r.ids, offset, limit),
                total |-> r.total, repairs |-> r.repairs] :
               r \in {PrimaryFindAlone(desc, rowsT, zprim, filters, offset, limit,
                                       order)} })
    ELSE The({ IF i = 0
               THEN [err |-> TRUE, noIndex |-> TRUE, ids |-> <<>>,
                     repairs |-> <<>>, total |-> 0]
               ELSE The({ [err |-> f.err, noIndex |-> FALSE, ids |-> f.ids,
                           repairs |-> <<>>, total |-> f.total] :
                          f \in {CompoundFindAlone(desc.indexes[i], zidx[i], filters,
                                                   offset, limit, order)} }) :
               i \in {selectIndex(desc, filters, order)} })

\* the row stored under id as a sequence of at most one element
RowOf(rowsT, id) == IF id \in DOMAIN rowsT THEN <<rowsT[id]>> ELSE <<>>

(***************************************************************************)
(* Specification of Put alone: batches of entities with text properties    *)
(* and no expiry are put and indexed, one batch after the other.           *)
(***************************************************************************)
PlainBatches(t) ==
    {b \in PutBatches(t) :
        \A i \in DOMAIN b :
            /\ DOMAIN b[i].Properties # {}
            /\ b[i].TTL = 0
            /\ \A p \in DOMAIN b[i].Properties : b[i].Properties[p].type = "Text"}

NextPut ==
    \/ \E c \in Clients, t \in Tables : \E ents \in PlainBatches(t) : Put(c, t, ents)
    \/ \E c \in Clients : PropsGet(c)
    \/ \E c \in Clients : PropsSet(c)
    \/ \E c \in Clients : ExecRows(c)
    \/ \E c \in Clients : ExecIndex(c)

SpecPut == Init /\ [][NextPut]_vars

\* the filter sets of equalities and of id ALL
EqFilterSets(t) ==
    {f \in FilterSets(t) : \A p \in DOMAIN f : f[p].Operator \in {"=", "ALL"}}

\* C1: after any sequence of completed Put batches, every index of a table
\* answers every filter set it matches (offset 0, no limit) with exactly the
\* ids of the rows whose stored properties satisfy the filters, and with a
\* total equal to the number of returned ids.
C1_IndexCoverage ==
    AllIdle =>
        \A t \in Tables : \A f \in EqFilterSets(t) :
            LET desc == tables[t]
                want == MatchingIds(rows[t], f)
                p == PrimaryFindAlone(desc, rows[t], zprimary[t], f, 0, -1, NoOrder)
                s(i) == CompoundFindAlone(desc.indexes[i], zindex[t][i], f, 0, -1, NoOrder)
                exact(r) == /\ ~r.err
                            /\ Elems(r.ids) = want
                            /\ Len(r.ids) = Cardinality(want)
                            /\ r.total = Len(r.ids)
            IN  /\ PrimaryMatches(desc, f) => exact(p)
                /\ \A i \in DOMAIN desc.indexes :
                      CompoundMatches(desc.indexes[i], f, NoOrder).match => exact(s(i))

(***************************************************************************)
(* Properties of the operations under Spec                                 *)
(***************************************************************************)
\* client c's operation of the given kind ends in this step without error
Completes(c, kind) ==
    /\ pc[c] # "idle"
    /\ op[c].kind = kind
    /\ pc'[c] = "idle"
    /\ ~resp'[c].err

\* C3: if the Execute of a change set returns an error, the backend holds
\* none of its effects: every row of the set is as it was before the change
\* set and the index sets are unchanged.
C3_ErrorAppliesNothing ==
    [][\A c \in Clients :
          (/\ pc[c] \in {"props", "cache", "rows", "index"}
           /\ pc'[c] = "idle"
           /\ resp'[c].err)
          => LET t == op[c].table
                 before == IF pc[c] = "index" THEN op[c].pre ELSE rows[t]
             IN  /\ \A id \in Elems(op[c].ids) :
                       RowOf(rows'[t], id) = RowOf(before, id)
                 /\ zprimary'[t] = zprimary[t]
                 /\ zindex'[t] = zindex[t]]_vars

\* C6: Update returns the number of entities it updated, i.e. the number of
\* resolved ids that received the change list.
C6_UpdateReturnsUpdated ==
    [][\A c \in Clients :
          Completes(c, "update") => resp'[c].num = Len(op[c].ids)]_vars

\* C7: the total a Get computes when it resolves its ids, and returns in its
\* response, equals the number of entities matching the filter set, whatever
\* the paging and the ordering, for the primary and for the secondary
\* indexes (stated for a table whose primary set holds exactly the ids of
\* its rows).
C7_TotalIsMatchCount ==
    [][\A c \in Clients :
          (/\ pc[c] \in {"find", "count"}
           /\ pc'[c] = "load"
           /\ zprimary[op'[c].table] = DOMAIN rows[op'[c].table])
          => op'[c].total =
                Cardinality(MatchingIds(rows[op'[c].table], op'[c].filters))]_vars

\* C8: Delete with the ALL filter on a table of N > DeleteChunkSize rows
\* returns N and leaves no row, no primary id and no secondary index entry.
C8_DeleteAllEmptiesTable ==
    [][\A c \in Clients :
          (/\ Completes(c, "delete")
           /\ op[c].filters = [id |-> Filter(IdKey, "ALL", <<>>)]
           /\ op[c].before > DeleteChunkSize)
          => LET t == op[c].table
             IN  /\ resp'[c].num = op[c].before
                 /\ DOMAIN rows'[t] = {}
                 /\ zprimary'[t] = {}
                 /\ \A i \in DOMAIN zindex'[t] : zindex'[t][i] = {}]_vars

\* the ids the filters of a Delete resolve to when nothing limits them
Resolved(t, filters) ==
    Elems(getIdsAlone(tables[t], rows[t], zprimary[t], zindex[t], filters,
                 0, -1, NoOrder).ids)

\* the property list memoized for a DELETE change is the one computed for
\* table t
DeleteReadsAll(t) ==
    LET rc == newEntityChange(<<>>, "delete", <<Change("", Nil, "DEL")>>)
    IN  indexableProperties(tables[t], propCache, rc).props
            = indexableProperties(tables[t], EmptyMap, rc).props

\* C9: every iteration of the chunk loop of Delete strictly shrinks the set
\* of ids the filters resolve to: at the end of an iteration the ids it
\* resolved and deleted are no longer resolved, so the loop ends (stated for
\* iterations that read every indexed column of the rows they delete).
C9_DeleteLoopShrinks ==
    \A c \in Clients :
        (pc[c] = "loop" /\ DeleteReadsAll(op[c].table)) =>
            /\ op[c].ids # <<>>
            /\ Elems(op[c].ids) \cap Resolved(op[c].table, op[c].filters) = {}

\* C10: Put on a table with a random primary returns one id per entity in
\* input order, the given id when there is one and a generated non-empty id
\* otherwise, and every returned id is in the primary set and has a row.
C10_PutReturnsStoredIds ==
    [][\A c \in Clients :
          (/\ Completes(c, "put")
           /\ tables[op[c].table].primary.type = "random"
           /\ \A i \in DOMAIN op[c].ents : op[c].ents[i].TTL = 0)
          => LET t == op[c].table
                 ents == op[c].ents
                 ids == resp'[c].ids
             IN  /\ Len(ids) = Len(ents)
                 /\ \A i \in DOMAIN ents :
                       /\ ents[i].Id # <<>> => ids[i] = ents[i].Id
                       /\ ents[i].Id = <<>> => ids[i] # <<>>
                       /\ ids[i] \in zprimary'[t]
                       /\ ids[i] \in DOMAIN rows'[t]]_vars

(***************************************************************************)
(* Specification of the property cache shared by the tables: the store     *)
(* holds one entity of Apps, put by a completed Put, and the clients       *)
(* update and read both tables.                                            *)
(***************************************************************************)
AppEnt == Ent(<<>>, [pkg |-> va, city |-> va], 0)

InitCache ==
    \E pl \in {putLoop(AppsDesc, <<AppEnt>>, <<Uid(1)>>)} :
    \E r \in {ExecuteAlone(AppsDesc, EmptyMap, EmptyMap, pl.changes)} :
    \E ic \in {indexChanges(AppsDesc, {}, [i \in DOMAIN AppsDesc.indexes |-> {}],
                             r.results)} :
        /\ tables = Schema
        /\ rows = [t \in DOMAIN Schema |-> IF t = "Apps" THEN r.rows ELSE EmptyMap]
        /\ zprimary = [t \in DOMAIN Schema |-> IF t = "Apps" THEN ic.zprimary ELSE {}]
        /\ zindex = [t \in DOMAIN Schema |->
                        IF t = "Apps" THEN ic.zindex
                        ELSE [i \in DOMAIN Schema[t].indexes |-> {}]]
        /\ propCache = r.cache
        /\ pc = [c \in {"c1"} |-> "idle"]
        /\ op = [c \in {"c1"} |-> NoOp]
        /\ resp = [c \in {"c1"} |-> Resp("put", FALSE, pl.ids, 0, 0, 1)]
        /\ nextUid = 0
        /\ nops = 0

NameFilters == {[name |-> Filter("name", "=", <<v>>)] : v \in {va, vB}}

NameChanges == {<<Set("name", v)>> : v \in {va, vB}}

NextCache ==
    \/ \E c \in Clients : \E ents \in PlainBatches("Users") : Put(c, "Users", ents)
    \/ \E c \in Clients, t \in Tables :
          \E f \in NameFilters \cup {[id |-> Filter(IdKey, "ALL", <<>>)]},
             chs \in NameChanges : Update(c, t, f, chs)
    \/ \E c \in Clients : \E f \in NameFilters : Get(c, "Users", f, 0, -1, NoOrder)
    \/ \E c \in Clients : Find(c)
    \/ \E c \in Clients : Count(c)
    \/ \E c \in Clients : Load(c)
    \/ \E c \in Clients : PropsGet(c)
    \/ \E c \in Clients : PropsSet(c)
    \/ \E c \in Clients : ExecRows(c)
    \/ \E c \in Clients : ExecIndex(c)

SpecCache == InitCache /\ [][NextCache]_vars

\* the ids of the entities a Get with the filters returns from the given
\* store of table t
GetIds(t, rowsT, zprim, zidx, filters) ==
    LET g == getIdsAlone(tables[t], rowsT, zprim, zidx, filters, 0, -1, NoOrder)
    IN  IF g.err THEN {} ELSE {k \in Elems(g.ids) : k \in DOMAIN rowsT}

\* C5: after an Update that sets the indexed column name of an entity to a
\* different value, Get by the old value does not return the entity and Get
\* by the new value returns it.
C5_UpdateMovesIndexEntry ==
    [][\A c \in Clients :
          (/\ Completes(c, "update")
           /\ op[c].uchanges \in NameChanges
           /\ \E i \in DOMAIN tables[op[c].table].indexes :
                 tables[op[c].table].indexes[i] = <<"name">>)
          => LET t == op[c].table
                 new == op[c].uchanges[1].Value
                 byName(v) == GetIds(t, rows'[t], zprimary'[t], zindex'[t],
                                     [name |-> Filter("name", "=", <<v>>)])
             IN  \A id \in Elems(op[c].ids) :
                    LET old == StoredValue(op[c].pre, id, "name")
                    IN  (old.type = "Text" /\ prepareValue(old) # prepareValue(new))
                        => (id \notin byName(old) /\ id \in byName(new))]_vars

(***************************************************************************)
(* Specification of two clients working on the Users table at once         *)
(***************************************************************************)
InitTx == InitWith([t \in {"Users"} |-> UsersDesc], {"c1", "c2"})

\* single entities with a name and no expiry
TxBatches(t) == {b \in PlainBatches(t) : Len(b) = 1 /\ DOMAIN b[1].Properties = {"name"}}

AllFilter == [id |-> Filter(IdKey, "ALL", <<>>)]

NameIsA == [name |-> Filter("name", "=", <<va>>)]

NextTx ==
    \/ \E c \in Clients, t \in Tables : \E ents \in TxBatches(t) : Put(c, t, ents)
    \/ \E c \in Clients, t \in Tables :
          \E f \in {AllFilter, NameIsA} : Get(c, t, f, 0, -1, NoOrder)
    \/ \E c \in Clients, t \in Tables : Update(c, t, NameIsA, <<Set("name", vB)>>)
    \/ \E c \in Clients, t \in Tables : Delete(c, t, AllFilter)
    \/ \E c \in Clients : DeleteLoop(c)
    \/ \E c \in Clients : Repair(c)
    \/ \E c \in Clients : Find(c)
    \/ \E c \in Clients : Count(c)
    \/ \E c \in Clients : Load(c)
    \/ \E c \in Clients : PropsGet(c)
    \/ \E c \in Clients : PropsSet(c)
    \/ \E c \in Clients : ExecRows(c)
    \/ \E c \in Clients : ExecIndex(c)

SpecTx == InitTx /\ [][NextTx]_vars

\* the index commands of client c's change set are still to be executed
\* and will change the index sets
IndexPending(c) ==
    /\ pc[c] = "index"
    /\ LET t == op[c].table
           ic == indexChanges(tables[t], zprimary[t], zindex[t], op[c].results)
       IN  ic.zprimary # zprimary[t] \/ ic.zindex # zindex[t]

\* C2: the row mutations and the index mutations of a change set take
\* effect as one atomic transaction, so in no state is a row of a change
\* set mutated while its index entries are not yet updated.
C2_SingleTransaction ==
    \A c \in Clients :
        ~(IndexPending(c) /\ rows[op[c].table] # op[c].pre)

\* C4: the row commands of a change set are applied before any of its index
\* commands: an index set is only mutated by a change set whose row
\* transaction has been executed (or by the read repair of a primary find),
\* never by a step that has yet to apply the rows.
C4_RowsBeforeIndex ==
    [][\A t \in Tables :
          (zprimary'[t] # zprimary[t] \/ zindex'[t] # zindex[t])
          => \E c \in Clients :
                /\ op[c].table = t
                /\ pc[c] \in {"index", "repair"}
                /\ pc'[c] # pc[c]
                /\ rows'[t] = rows[t]]_vars

\* an Update has completed both transactions: the row holds the new name and
\* the [name] index holds the entry of the new name
C4_Witness ==
    \E c \in Clients :
        /\ pc[c] = "idle"
        /\ resp[c].kind = "update"
        /\ ~resp[c].err
        /\ \E id \in Elems(resp[c].ids) :
              /\ StoredValue(rows["Users"], id, "name") = vB
              /\ entry(<<"name">>, id, [name |-> prepareValue(vB).val]) \in zindex["Users"][1]

(***************************************************************************)
(* Specification of a table with a compound primary on two columns and no  *)
(* secondary index: People, whose id is made of name and city.             *)
(***************************************************************************)
PeopleDesc ==
    [primary |-> [type |-> "compound", columns |-> <<"name", "city">>],
     indexes |-> <<>>]

\* the texts "john", "Jane", "doe", "blow"
john == Text(<<106, 111, 104, 110>>)

Jane == Text(<<74, 97, 110, 101>>)

doe == Text(<<100, 111, 101>>)

blow == Text(<<98, 108, 111, 119>>)

\* the id "john|doe|"
JohnDoeId == <<106, 111, 104, 110, 124, 100, 111, 101, 124>>

\* an id chosen by the caller, "x"
GivenId == <<120>>

InitPeople == InitWith([t \in {"People"} |-> PeopleDesc], {"c1"})

PeopleBatches ==
    {<<Ent(id, [name |-> n, city |-> s], 0)>> :
        id \in {<<>>, GivenId}, n \in {john, Jane}, s \in {doe, blow}}
    \cup {<<Ent(<<>>, [name |-> john, city |-> doe, pkg |-> v], 0)>> : v \in {va, vB}}
    \cup {<<Ent(<<>>, [name |-> john], 0)>>}

\* filter sets on the id, on both columns, on one column and on two
\* properties of which one is no column
PeopleFilters ==
    {AllFilter,
     [id |-> Filter(IdKey, "IN", <<JohnDoeId>>)],
     [name |-> Filter("name", "IN", <<john, Jane>>),
      city |-> Filter("city", "IN", <<doe, blow>>)],
     [name |-> Filter("name", "=", <<Jane>>),
      city |-> Filter("city", "IN", <<doe, blow>>)],
     [name |-> Filter("name", "IN", <<john, Jane>>)],
     [city |-> Filter("city", "=", <<doe>>)],
     [name |-> Filter("name", "=", <<john>>),
      pkg |-> Filter("pkg", "=", <<va>>)]}

NextPeople ==
    \/ \E c \in Clients : \E ents \in PeopleBatches : Put(c, "People", ents)
    \/ \E c \in Clients : \E f \in PeopleFilters : Get(c, "People", f, 0, -1, NoOrder)
    \/ \E c \in Clients : Repair(c)
    \/ \E c \in Clients : Find(c)
    \/ \E c \in Clients : Load(c)
    \/ \E c \in Clients : PropsGet(c)
    \/ \E c \in Clients : PropsSet(c)
    \/ \E c \in Clients : ExecRows(c)
    \/ \E c \in Clients : ExecIndex(c)

SpecPeople == InitPeople /\ [][NextPeople]_vars

\* the id the column values n and s stand for: the normalised values, each
\* followed by '|'
PersonKey(n, s) ==
    Normalize(getNormalizer, n.val).ret \o <<PIPE>> \o Normalize(getNormalizer, s.val).ret
    \o <<PIPE>>

\* client c's Put executes its row transaction in this step
PutsRows(c) == pc[c] = "rows" /\ pc'[c] = "index" /\ op[c].kind = "put"

\* C11: on a table with a compound primary the id Put assigns is a function
\* of the column values only (the caller's id is ignored; john, doe give
\* "john|doe|"), and a Put of column values a row already holds writes that
\* row and creates no other.
C11_CompoundIdFromColumns ==
    [][\A c \in Clients :
          PutsRows(c) =>
            LET o == op'[c]
                t == o.table
            IN  \A i \in DOMAIN o.ents :
                  LET e == o.ents[i]
                      n == e.Properties["name"]
                      s == e.Properties["city"]
                  IN  /\ o.ids[i] = PersonKey(n, s)
                      /\ (n = john /\ s = doe) => o.ids[i] = JohnDoeId
                      /\ o.ids[i] \in DOMAIN rows'[t]
                      /\ \A id \in DOMAIN rows[t] :
                            (/\ StoredValue(rows[t], id, "name") = n
                             /\ StoredValue(rows[t], id, "city") = s)
                            => /\ o.ids[i] = id
                               /\ DOMAIN rows'[t] = DOMAIN rows[t]]_vars

\* a Put that names an id of its own has written the row "john|doe|", which
\* was the only row before and is the only row after
C11_Witness ==
    \E c \in Clients :
        /\ pc[c] = "index"
        /\ op[c].kind = "put"
        /\ op[c].ents[1].Id = GivenId
        /\ op[c].ids = <<JohnDoeId>>
        /\ DOMAIN op[c].pre = {JohnDoeId}
        /\ DOMAIN rows["People"] = {JohnDoeId}

\* the candidate ids of a filter set on both columns: one per combination of
\* the values, the values of name varying slowest
Candidates(f) ==
    LET ns == f["name"].Values
        ss == f["city"].Values
    IN  [j \in 1..(Len(ns) * Len(ss)) |->
            PersonKey(ns[((j - 1) \div Len(ss)) + 1], ss[((j - 1) % Len(ss)) + 1])]

\* the ids of client c's request are resolved in this step: the last reply
\* of the batch of the primary find, or of the index find, has arrived
Resolves(c) ==
    /\ pc[c] \in {"idle", "loop", "find", "count"}
    /\ pc'[c] \in {"load", "repair", "props", "rows"}

\* C12: the compound primary answers a query exactly when its only filter is
\* on id or its filters are on exactly the columns of the primary; in the
\* second case it returns the existing ids among the candidates of the
\* Cartesian product of the filter values, in the order of the candidates.
C12_CompoundPrimaryFind ==
    [][\A c \in Clients :
          /\ \A f \in PeopleFilters :
                (/\ pc[c] = "idle"
                 /\ Get(c, "People", f, 0, -1, NoOrder))
                => LET shaped == DOMAIN f = {IdKey} \/ DOMAIN f = {"name", "city"}
                       failed == pc'[c] = "idle" /\ resp'[c].err
                   IN  /\ failed <=> ~shaped
                       /\ DOMAIN f = {"name", "city"}
                          => op'[c].keys = Candidates(f)
          /\ (Resolves(c) /\ DOMAIN op'[c].filters = {"name", "city"})
             => op'[c].ids =
                  SelectSeq(Candidates(op'[c].filters),
                            LAMBDA k : k \in DOMAIN rows["People"])]_vars

\* a Get on both columns has returned "john|blow|" before "jane|doe|", the
\* two existing ids of the four candidates
C12_Witness ==
    \E c \in Clients :
        /\ pc[c] = "load"
        /\ DOMAIN op[c].filters = {"name", "city"}
        /\ op[c].ids = <<PersonKey(john, blow), PersonKey(Jane, doe)>>

(***************************************************************************)
(* A table with overlapping secondary indexes: Items has a random primary  *)
(* and indexes on [name, city, pkg], [name, city] and [name].              *)
(***************************************************************************)
ItemsDesc ==
    [primary |-> [type |-> "random", columns |-> <<>>],
     indexes |-> << <<"name", "city", "pkg">>, <<"name", "city">>, <<"name">> >>]

\* the city values "a", "ab" and "b"
ca == Text(<<97>>)

cab == Text(<<97, 98>>)

cb == Text(<<98>>)

InitItems == InitWith([t \in {"Items"} |-> ItemsDesc], {"c1"})

Item(n, s, p) == Ent(<<>>, [name |-> n, city |-> s, pkg |-> p], 0)

\* a batch of three items of one name whose cities are not in the order of
\* their ids, and single items
ItemBatches ==
    {<<Item(va, cb, va), Item(va, ca, va), Item(va, cab, va)>>,
     <<Item(vB, ca, va)>>,
     <<Item(va, cb, vB)>>}

Between(prop, lo, hi) == Filter(prop, "><", <<lo, hi>>)

\* filter sets on the id, on prefixes of the index columns, on columns that
\* are no prefix, and with a range on city
ItemFilters ==
    {AllFilter,
     [id |-> Filter(IdKey, "IN", <<Uid(1), Uid(2), Uid(3)>>)],
     [name |-> Filter("name", "=", <<va>>)],
     [name |-> Filter("name", "=", <<va>>), city |-> Filter("city", "=", <<cb>>)],
     [name |-> Filter("name", "=", <<va>>), city |-> Filter("city", "=", <<cb>>),
      pkg |-> Filter("pkg", "=", <<va>>)],
     [city |-> Filter("city", "=", <<ca>>)],
     [name |-> Filter("name", "=", <<va>>), pkg |-> Filter("pkg", "=", <<va>>)],
     [name |-> Filter("name", "=", <<va>>), city |-> Between("city", ca, cb)],
     [name |-> Filter("name", "=", <<va>>), city |-> Between("city", cab, cb)]}

ItemOrders ==
    {NoOrder, [By |-> "city", Ascending |-> TRUE],
     [By |-> "city", Ascending |-> FALSE], [By |-> "pkg", Ascending |-> TRUE]}

ItemPagings == {<<0, -1>>, <<0, 2>>, <<1, 1>>}

\* the filter sets of the Updates and Deletes: on name, on name and city, and
\* on city alone
ItemWriteFilters ==
    {f \in ItemFilters :
        /\ DOMAIN f \in {{"name"}, {"name", "city"}, {"city"}}
        /\ \A p \in DOMAIN f : f[p].Operator = "="}

ItemChanges == {<<Set("city", ca)>>}

NextItems ==
    \/ \E c \in Clients : \E ents \in ItemBatches : Put(c, "Items", ents)
    \/ \E c \in Clients : \E f \in ItemFilters : \E o \in ItemOrders :
          \E pg \in ItemPagings : Get(c, "Items", f, pg[1], pg[2], o)
    \/ \E c \in Clients : \E f \in ItemWriteFilters : \E ch \in ItemChanges :
          Update(c, "Items", f, ch)
    \/ \E c \in Clients : \E f \in ItemWriteFilters : Delete(c, "Items", f)
    \/ \E c \in Clients : DeleteLoop(c)
    \/ \E c \in Clients : Repair(c)
    \/ \E c \in Clients : Find(c)
    \/ \E c \in Clients : Count(c)
    \/ \E c \in Clients : Load(c)
    \/ \E c \in Clients : PropsGet(c)
    \/ \E c \in Clients : PropsSet(c)
    \/ \E c \in Clients : ExecRows(c)
    \/ \E c \in Clients : ExecIndex(c)

SpecItems == InitItems /\ [][NextItems]_vars

\* the number j of leading index columns the filters are on, when the filter
\* columns are exactly the first j columns; -1 when they are no prefix
PrefixLen(properties, filters) ==
    IF \E j \in 0..Len(properties) :
          DOMAIN filters = {properties[k] : k \in 1..j}
    THEN CHOOSE j \in 0..Len(properties) :
          DOMAIN filters = {properties[k] : k \in 1..j}
    ELSE -1

\* a non-empty prefix and the ordering column last
PrefixAndOrderLast(ps, f, o) ==
    /\ PrefixLen(ps, f) >= 1
    /\ IsNil(o) \/ o.By = ps[Len(ps)]

\* a non-empty prefix and, with an ordering, the ordering column last and
\* the filters on every column before it
PrefixUpToOrder(ps, f, o) ==
    /\ PrefixLen(ps, f) >= 1
    /\ IsNil(o) \/ (o.By = ps[Len(ps)] /\ PrefixLen(ps, f) >= Len(ps) - 1)

\* client c sends a Get with filters f and ordering o to Items in this step
GetsItems(c, f, o) ==
    /\ pc[c] = "idle"
    /\ \E pg \in ItemPagings : Get(c, "Items", f, pg[1], pg[2], o)

\* C13: an index matches a query exactly when the filter columns
\* are a non-empty prefix of the index columns and the ordering column, if
\* there is one, is the last column of the index; so a Get on name ordered
\* by pkg is resolved.
C13_PrefixAndOrderLast ==
    [][\A c \in Clients : \A f \in ItemFilters : \A o \in ItemOrders :
          /\ \A i \in DOMAIN ItemsDesc.indexes :
                CompoundMatches(ItemsDesc.indexes[i], f, o).match
                <=> PrefixAndOrderLast(ItemsDesc.indexes[i], f, o)
          /\ (/\ DOMAIN f = {"name"}
              /\ f["name"].Operator = "="
              /\ o.By = "pkg"
              /\ GetsItems(c, f, o))
             => Resolves(c)]_vars

\* the indexes of Items that match filters f and ordering o with the highest
\* score, the score of a matching index on K columns being j / K without an
\* ordering and 1 with one
BestIndexes(f, o) ==
    LET ixs == ItemsDesc.indexes
        ms == {i \in DOMAIN ixs : PrefixUpToOrder(ixs[i], f, o)}
        num(i) == IF IsNil(o) THEN PrefixLen(ixs[i], f) ELSE Len(ixs[i])
    IN  {i \in ms : \A k \in ms : num(k) * Len(ixs[i]) <= num(i) * Len(ixs[k])}

\* the primary of Items matches f
ById(f) == DOMAIN f = {IdKey}

\* ids is what the request f, offset, limit, o is resolved to: through the
\* primary the ids are ids of the filter or of the primary index, through a
\* secondary index they are the ids of its entries in the range of f
ResolvedThrough(ids, f, offset, limit, o) ==
    IF ById(f)
    THEN Elems(ids) \subseteq (IF f[IdKey].Operator = "ALL" THEN zprimary["Items"]
                               ELSE Elems(f[IdKey].Values))
    ELSE \E i \in BestIndexes(f, o) :
            LET r == CompoundFindAlone(ItemsDesc.indexes[i], zindex["Items"][i], f,
                                  offset, limit, o)
            IN  ~r.err /\ ids = r.ids

\* the step is the failure of client c's request with NoIndex, the backend
\* unchanged
FailsNoIndex(c) ==
    /\ pc'[c] = "idle"
    /\ resp'[c].err
    /\ resp'[c].noIndex
    /\ UNCHANGED store

\* C14: Get, Update and Delete resolve the ids through the primary when it
\* matches the filters, otherwise through the matching secondary index of the
\* highest score, and fail with NoIndex, the backend unchanged, when no index
\* matches.
C14_IndexSelection ==
    [][\A c \in Clients :
          /\ (Resolves(c) /\ op'[c].kind = "get")
             => ResolvedThrough(op'[c].ids, op'[c].filters, op'[c].offset,
                                op'[c].limit, op'[c].order)
          /\ \A f \in ItemFilters : \A o \in ItemOrders :
                (/\ ~ById(f)
                 /\ BestIndexes(f, o) = {}
                 /\ GetsItems(c, f, o))
                => FailsNoIndex(c)
          /\ \A f \in ItemWriteFilters :
                (/\ pc[c] = "idle"
                 /\ \/ \E ch \in ItemChanges : Update(c, "Items", f, ch)
                    \/ Delete(c, "Items", f))
                => IF BestIndexes(f, NoOrder) = {}
                   THEN FailsNoIndex(c)
                   ELSE IF pc'[c] = "idle"
                        THEN /\ ~resp'[c].err
                             /\ \E lim \in {-1, DeleteChunkSize} :
                                   ResolvedThrough(<<>>, f, 0, lim, NoOrder)
                        ELSE ResolvedThrough(op'[c].ids, f, 0, op'[c].limit,
                                             NoOrder)]_vars

\* after an Update on city alone failed with NoIndex, a Get on name alone has
\* been resolved through the index on [name], in the order of the ids,
\* while the index on [name, city, pkg] holds the same ids in another order
C14_Witness ==
    \E c \in Clients :
        /\ resp[c].kind = "update"
        /\ resp[c].noIndex
        /\ pc[c] = "load"
        /\ DOMAIN op[c].filters = {"name"}
        /\ op[c].ids = <<Uid(1), Uid(2), Uid(3)>>
        /\ CompoundFindAlone(ItemsDesc.indexes[1], zindex["Items"][1], op[c].filters,
                        0, -1, NoOrder).ids = <<Uid(3), Uid(2), Uid(1)>>

\* the full match list of a Get on Items: the ids the request is resolved to
\* without paging
FullMatchList(f, o) ==
    getIdsAlone(ItemsDesc, rows["Items"], zprimary["Items"], zindex["Items"], f, 0, -1,
           o).ids

\* C15: a Get with offset o >= 0 and limit l > 0 is resolved to the matches at
\* positions o .. o+l-1 of the full match list, so to at most l of them,
\* whichever index answers it.
C15_PagingWindow ==
    [][\A c \in Clients :
          (/\ Resolves(c)
           /\ op'[c].kind = "get"
           /\ op'[c].limit > 0)
          => LET o == op'[c]
             IN  /\ Len(o.ids) <= o.limit
                 /\ o.ids = Slice(FullMatchList(o.filters, o.order), o.offset,
                                  o.limit)]_vars

\* the index of Items on [name, city] holds exactly the entries of the rows
CityIndexed ==
    zindex["Items"][2] =
        {entry(ItemsDesc.indexes[2], id,
               [p \in {"name", "city"} |->
                   prepareValue(StoredValue(rows["Items"], id, p)).val]) :
           id \in DOMAIN rows["Items"]}

\* the city of row id as the index compares it
CityOf(id) == prepareValue(StoredValue(rows["Items"], id, "city")).val.val

\* the rows of Items whose name equals the value of the filter on name and
\* whose city lies in the closed range of the filter on city
InCityRange(f) ==
    {id \in DOMAIN rows["Items"] :
        /\ prepareValue(StoredValue(rows["Items"], id, "name"))
              = prepareValue(f["name"].Values[1])
        /\ LexLeq(prepareValue(f["city"].Values[1]).val.val, CityOf(id))
        /\ LexLeq(CityOf(id), prepareValue(f["city"].Values[2]).val.val)}

\* C16: on the index [name, city], a Get with Eq on name, Between on city and
\* an ordering by city is resolved to exactly the rows of that name whose
\* city lies in the closed range, in non-descending order of city when the
\* ordering is ascending and in non-ascending order when it is descending.
C16_RangeInOrder ==
    [][\A c \in Clients :
          (/\ Resolves(c)
           /\ op'[c].kind = "get"
           /\ op'[c].limit <= 0
           /\ DOMAIN op'[c].filters = {"name", "city"}
           /\ op'[c].filters["name"].Operator = "="
           /\ op'[c].filters["city"].Operator = "><"
           /\ op'[c].order.By = "city"
           /\ CityIndexed)
          => LET o == op'[c]
             IN  /\ Elems(o.ids) = InCityRange(o.filters)
                 /\ Len(o.ids) = Cardinality(InCityRange(o.filters))
                 /\ \A i, j \in DOMAIN o.ids :
                       i < j => IF o.order.Ascending
                                THEN LexLeq(CityOf(o.ids[i]), CityOf(o.ids[j]))
                                ELSE LexLeq(CityOf(o.ids[j]), CityOf(o.ids[i]))]_vars

(***************************************************************************)
(* Numeric columns: the tables Ints, Uints and Floats have a random        *)
(* primary and an index on [score], a column of the type the table is      *)
(* named after.                                                            *)
(***************************************************************************)
\* the numbers of the model are the integers from -MaxNum to MaxNum
MaxNum == 2

ScoresDesc ==
    [primary |-> [type |-> "random", columns |-> <<>>],
     indexes |-> << <<"score">> >>]

InitScores == InitWith([t \in {"Ints", "Uints", "Floats"} |-> ScoresDesc], {"c1"})

\* floats with a fraction, as TestSorting stores: -0.3, -0.0005, 0.00005
\* and 1.5
FractionScores == {FloatE7(n) : n \in {-3000000, -5000, 500, 15000000}}

\* the values a score of table t can take
Scores(t) ==
    IF t = "Ints" THEN {IntV(n) : n \in (0 - MaxNum)..MaxNum}
    ELSE IF t = "Uints" THEN {UintV(n) : n \in 0..MaxNum}
    ELSE {FloatV(n) : n \in (0 - MaxNum)..MaxNum} \cup FractionScores \cup {PosInf}

\* the range over all finite scores of table t
AllScores(t) ==
    IF t = "Ints" THEN Between("score", IntV(0 - MaxNum), IntV(MaxNum))
    ELSE IF t = "Uints" THEN Between("score", UintV(0), UintV(MaxNum))
    ELSE Between("score", FloatV(0 - MaxNum), FloatV(MaxNum))

ScoreOrders ==
    {NoOrder, [By |-> "score", Ascending |-> TRUE],
     [By |-> "score", Ascending |-> FALSE]}

NextScores ==
    \/ \E c \in Clients : \E t \in Tables : \E v \in Scores(t) :
          Put(c, t, <<Ent(<<>>, [score |-> v], 0)>>)
    \/ \E c \in Clients : \E t \in Tables : \E o \in ScoreOrders :
          Get(c, t, [score |-> AllScores(t)], 0, -1, o)
    \/ \E c \in Clients : Count(c)
    \/ \E c \in Clients : Load(c)
    \/ \E c \in Clients : PropsGet(c)
    \/ \E c \in Clients : PropsSet(c)
    \/ \E c \in Clients : ExecRows(c)
    \/ \E c \in Clients : ExecIndex(c)

SpecScores == InitScores /\ [][NextScores]_vars

\* the number the stored form of a score stands for, in units of 10^-6
\* (Encode writes a float with six decimals); +Inf is above every number of
\* the model
NumberOf(data) ==
    IF data = PosInf.val THEN (MaxNum + 1) * 1000000
    ELSE LET neg == data[1] = 45
             d == IF neg THEN Tail(data) ELSE data
             dots == {i \in DOMAIN d : d[i] = 46}
             dot == IF dots = {} THEN Len(d) + 1 ELSE CHOOSE i \in dots : TRUE
             u == DigitsValue(DigitVals(SubSeq(d, 1, dot - 1))) * 1000000
                  + DigitsValue(DigitVals(SubSeq(d, dot + 1, Len(d))))
         IN  IF neg THEN 0 - u ELSE u

\* the score of row id of table t in the rows rowsT
ScoreOf(rowsT, id) == NumberOf(rowsT[id].fields["score"])

\* C17: the index encoding of the numbers of one type preserves their order:
\* of two rows of a table the one with the smaller score has the smaller
\* index entry, and a range scan of the index in ascending order is resolved
\* to the rows in non-descending order of score.
C17_EncodingPreservesOrder ==
    [][/\ \A t \in Tables : \A e1, e2 \in zindex'[t][1] :
             (/\ {extractId(e1), extractId(e2)} \subseteq DOMAIN rows'[t]
              /\ ScoreOf(rows'[t], extractId(e1)) < ScoreOf(rows'[t], extractId(e2)))
             => LexLess(e1, e2)
       /\ \A c \in Clients :
             (/\ Resolves(c)
              /\ op'[c].kind = "get"
              /\ op'[c].order.Ascending)
             => LET o == op'[c]
                IN  \A i, j \in DOMAIN o.ids :
                       i < j => ScoreOf(rows[o.table], o.ids[i])
                                  <= ScoreOf(rows[o.table], o.ids[j])]_vars

(***************************************************************************)
(* Gets with a property list, on the Users table with rows that expire     *)
(***************************************************************************)
InitLoad == InitWith([t \in {"Users"} |-> UsersDesc], {"c1"})

LoadBatches ==
    {<<Ent(<<>>, [name |-> va], 1)>>,
     <<Ent(<<>>, [name |-> va, city |-> vB], 0)>>,
     <<Ent(<<>>, [city |-> va], 0)>>}

LoadFilters ==
    {AllFilter, NameIsA, [id |-> Filter(IdKey, "IN", <<Uid(1), Uid(2)>>)]}

\* the property lists of the Gets; the empty list asks for all properties
PropertyLists == {<<>>, <<"name">>, <<"city">>, <<"name", "city">>, <<"pkg">>}

NextLoad ==
    \/ \E c \in Clients : \E ents \in LoadBatches : Put(c, "Users", ents)
    \/ \E c \in Clients : \E f \in LoadFilters : Get(c, "Users", f, 0, -1, NoOrder)
    \/ \E c \in Clients : Find(c)
    \/ \E c \in Clients : Count(c)
    \/ \E c \in Clients : \E ps \in PropertyLists : LoadProperties(c, ps)
    \/ \E c \in Clients : Repair(c)
    \/ \E c \in Clients : PropsGet(c)
    \/ \E c \in Clients : PropsSet(c)
    \/ \E c \in Clients : ExecRows(c)
    \/ \E c \in Clients : ExecIndex(c)
    \/ \E t \in Tables : \E id \in DOMAIN rows[t] : ExpireRow(t, id)

SpecLoad == InitLoad /\ [][NextLoad]_vars

\* the replies client c's load has got so far are those the rows of now
\* give: an entity for every id whose row exists, none for the others (no
\* row has come or gone between the commands of the batch)
LoadedAsStored(c) ==
    \A k \in DOMAIN op[c].loaded :
        Len(op[c].loaded[k]) = IF op[c].ids[k] \in DOMAIN rows[op[c].table] THEN 1 ELSE 0

\* C18: a Get with a non-empty property list returns an entity for exactly
\* the resolved ids whose row exists, in their order, which are the entities
\* of the same Get without a property list; the property map of each holds
\* only requested properties that the row stores, with their stored values.
C18_LoadRequestedProperties ==
    [][\A c \in Clients : \A ps \in PropertyLists :
          (/\ Len(ps) > 0
           /\ pc[c] = "load"
           /\ LoadProperties(c, ps)
           /\ pc'[c] = "idle"
           /\ LoadedAsStored(c))
          => LET rowsT == rows[op[c].table]
                 es == resp'[c].entities
                 all == load(rowsT, op[c].ids, <<>>)
             IN  /\ [i \in DOMAIN es |-> es[i].Id]
                      = SelectSeq(op[c].ids, LAMBDA k : k \in DOMAIN rowsT)
                 /\ [i \in DOMAIN es |-> es[i].Id] = [i \in DOMAIN all |-> all[i].Id]
                 /\ \A i \in DOMAIN es :
                       /\ DOMAIN es[i].Properties \subseteq Elems(ps)
                       /\ \A p \in DOMAIN es[i].Properties :
                             /\ es[i].Id \in DOMAIN rowsT
                             /\ p \in DOMAIN rowsT[es[i].Id].fields
                             /\ es[i].Properties[p]
                                  = StoredValue(rowsT, es[i].Id, p)]_vars

(***************************************************************************)
(* The table repair (table.repair), run by the process Repairer.  The      *)
(* operation of the Repairer is                                            *)
(*   [kind, table, index, offset, queue, more, dangling]:                  *)
(* index is 0 while the primary is scanned and the number of the secondary *)
(* index afterwards, offset is the offset of the last scan, queue holds    *)
(* the scanned entries not yet visited, more tells that the scanner will   *)
(* scan again.  dangling (the ids of the primary without a row when the    *)
(* pass started) and stale (per secondary index, its entries of ids        *)
(* without a row when the pass started) are history kept for the           *)
(* properties.                                                             *)
(***************************************************************************)
\* the chunk of the scans of table.repair
ScanChunk == 10

Repairer == "repairer"

\* basePrimaryIndex.scan / CompoundIndex.scanRaw of one chunk: [ids, total]
scanRaw(zset, offset) ==
    [ids |-> ZRANGE(zset, offset, offset + ScanChunk - 1, TRUE),
     total |-> Cardinality(zset)]

\* the scanner goes on after the chunk s read at offset
ScansMore(s, offset) == ~(Len(s.ids) = 0 \/ s.total < offset + ScanChunk)

\* the sorted set that phase index of the repair of table t scans
ScannedSet(t, index) == IF index = 0 THEN zprimary[t] ELSE zindex[t][index]

\* table.repair starts: the first scan of the primary
RepairPass(r, t) ==
    /\ pc[r] = "idle"
    /\ \E s \in {scanRaw(zprimary[t], 0)} :
          op' = [op EXCEPT ![r] =
                    [kind |-> "repair", table |-> t, index |-> 0, offset |-> 0,
                     queue |-> s.ids, more |-> ScansMore(s, 0),
                     dangling |-> zprimary[t] \ DOMAIN rows[t],
                     stale |-> [i \in DOMAIN zindex[t] |->
                                  {e \in zindex[t][i] :
                                      extractId(e) \notin DOMAIN rows[t]}]]]
    /\ pc' = [pc EXCEPT ![r] = "scan"]
    /\ UNCHANGED <<tables, rows, zprimary, zindex, propCache, resp, nextUid>>

\* a run of table.repair that counts as one of the MaxOps operations
TableRepair(r, t) ==
    /\ nops < MaxOps
    /\ nops' = nops + 1
    /\ RepairPass(r, t)

\* the scanner reads the next chunk; it does so as soon as the last entry of
\* the chunk before is handed over, which is before that entry is visited
RepairScan(r) ==
    /\ pc[r] \in {"scan", "unindex"}
    /\ op[r].more
    /\ Len(op[r].queue) <= 1
    /\ \E s \in {scanRaw(ScannedSet(op[r].table, op[r].index),
                          op[r].offset + ScanChunk)} :
          op' = [op EXCEPT ![r].offset = @ + ScanChunk,
                           ![r].queue = @ \o s.ids,
                           ![r].more = ScansMore(s, op[r].offset + ScanChunk)]
    /\ UNCHANGED <<tables, rows, zprimary, zindex, propCache, pc, resp, nextUid,
                   nops>>

\* the visit of the next scanned entry: table.load of its id (an entry of a
\* secondary index that holds no id is skipped).  When the load finds no
\* entity the visit goes on with the removal of the entry; when it panics
\* the process ends
RepairVisit(r) ==
    /\ pc[r] = "scan"
    /\ Len(op[r].queue) > 0
    /\ \E t \in {op[r].table} : \E raw \in {Head(op[r].queue)} :
       \E id \in {IF op[r].index = 0 THEN raw ELSE extractId(raw)} :
       \E loads \in {op[r].index = 0 \/ Len(id) > 0} :
       \E ents \in {IF loads THEN load(rows[t], <<id>>, <<>>) ELSE <<>>} :
           IF Panicked(ents)
           THEN Crash /\ UNCHANGED op
           ELSE IF loads /\ Len(ents) = 0
           THEN pc' = [pc EXCEPT ![r] = "unindex"] /\ UNCHANGED op
           ELSE op' = [op EXCEPT ![r].queue = Tail(@)] /\ UNCHANGED pc
    /\ UNCHANGED <<tables, rows, zprimary, zindex, propCache, resp, nextUid, nops>>

\* the end of a visit that found no entity: primary.Unindex of the id or
\* idx.RemoveEntry of the raw entry, a ZREM on a connection of its own
RepairUnindex(r) ==
    /\ pc[r] = "unindex"
    /\ \E t \in {op[r].table} : \E raw \in {Head(op[r].queue)} :
           /\ zprimary' = IF op[r].index = 0
                          THEN [zprimary EXCEPT ![t] = @ \ {raw}]
                          ELSE zprimary
           /\ zindex' = IF op[r].index > 0
                        THEN [zindex EXCEPT ![t][op[r].index] = @ \ {raw}]
                        ELSE zindex
    /\ op' = [op EXCEPT ![r].queue = Tail(@)]
    /\ pc' = [pc EXCEPT ![r] = "scan"]
    /\ UNCHANGED <<tables, rows, propCache, resp, nextUid, nops>>

\* the scan of one index has ended: the first scan of the next secondary
\* index
RepairNextIndex(r) ==
    /\ pc[r] = "scan"
    /\ Len(op[r].queue) = 0
    /\ ~op[r].more
    /\ op[r].index < Len(tables[op[r].table].indexes)
    /\ \E s \in {scanRaw(zindex[op[r].table][op[r].index + 1], 0)} :
          op' = [op EXCEPT ![r].index = @ + 1,
                           ![r].offset = 0,
                           ![r].queue = s.ids,
                           ![r].more = ScansMore(s, 0)]
    /\ UNCHANGED <<tables, rows, zprimary, zindex, propCache, pc, resp, nextUid,
                   nops>>

\* table.repair returns after the scan of the last index
RepairEnd(r) ==
    /\ pc[r] = "scan"
    /\ Len(op[r].queue) = 0
    /\ ~op[r].more
    /\ op[r].index = Len(tables[op[r].table].indexes)
    /\ Finish(r, Resp("repair", FALSE, <<>>, 0, 0, 0))
    /\ UNCHANGED <<tables, rows, zprimary, zindex, propCache, nextUid, nops>>

\* the table Sessions has a random primary and an index on [name]
SessionsDesc ==
    [primary |-> [type |-> "random", columns |-> <<>>],
     indexes |-> << <<"name">> >>]

InitSessions == InitWith([t \in {"Sessions"} |-> SessionsDesc], {"c1", Repairer})

\* a batch of one more entity than a scan chunk, of which the first and the
\* last expire, and a single entity that expires
SessionBatches ==
    {[i \in 1..(ScanChunk + 1) |->
         Ent(<<>>, [name |-> va], IF i \in {1, ScanChunk + 1} THEN 1 ELSE 0)],
     <<Ent(<<>>, [name |-> vB], 1)>>}

SessionFilters ==
    {[id |-> Filter(IdKey, "IN", <<Uid(k)>>)] : k \in {1, ScanChunk + 1}}

NextSessions ==
    \/ \E ents \in SessionBatches : Put("c1", "Sessions", ents)
    \/ \E f \in SessionFilters : Get("c1", "Sessions", f, 0, -1, NoOrder)
    \/ Repair("c1")
    \/ Find("c1")
    \/ Load("c1")
    \/ PropsGet("c1")
    \/ PropsSet("c1")
    \/ ExecRows("c1")
    \/ ExecIndex("c1")
    \/ \E id \in DOMAIN rows["Sessions"] : ExpireRow("Sessions", id)
    \/ TableRepair(Repairer, "Sessions")
    \/ RepairScan(Repairer)
    \/ RepairVisit(Repairer)
    \/ RepairUnindex(Repairer)
    \/ RepairNextIndex(Repairer)
    \/ RepairEnd(Repairer)

SpecSessions == InitSessions /\ [][NextSessions]_vars

\* C19: a Get by the id of an entity put with a TTL returns the entity
\* while its row has not expired and no entity once it has, and a pass of
\* the table repair that starts after the expiry leaves the primary index
\* without the id.
C19_ExpiryAndRepair ==
    [][/\ (/\ Resolves("c1")
           /\ op'["c1"].kind = "get")
          => /\ Elems(op'["c1"].ids) \subseteq Elems(op'["c1"].filters[IdKey].Values)
             /\ SelectSeq(op'["c1"].ids, LAMBDA k : k \in DOMAIN rows["Sessions"])
                  = SelectSeq(op'["c1"].filters[IdKey].Values,
                              LAMBDA k : k \in DOMAIN rows["Sessions"])
       /\ (/\ pc["c1"] = "load"
           /\ Load("c1")
           /\ pc'["c1"] = "idle"
           /\ LoadedAsStored("c1"))
          => resp'["c1"].ids
               = SelectSeq(op["c1"].ids, LAMBDA k : k \in DOMAIN rows["Sessions"])
       /\ (pc[Repairer] = "scan" /\ pc'[Repairer] = "idle")
          => zprimary'["Sessions"] \cap op[Repairer].dangling = {}]_vars

\* C21: a run of the table repair removes from the primary index the id of
\* every row that was missing when the run started and from every secondary
\* index every raw entry of such a row, whatever their number, and it
\* removes no id and no entry of a row that exists.
C21_RepairRemovesAllMissing ==
    [][(/\ pc[Repairer] \in {"scan", "unindex"}
        /\ <<pc'[Repairer], op'[Repairer]>> # <<pc[Repairer], op[Repairer]>>)
       => LET t == op[Repairer].table
          IN  /\ (zprimary[t] \ zprimary'[t]) \cap DOMAIN rows[t] = {}
              /\ \A i \in DOMAIN zindex[t] :
                    \A e \in zindex[t][i] \ zindex'[t][i] :
                       extractId(e) \notin DOMAIN rows[t]
              /\ pc'[Repairer] = "idle"
                 => /\ zprimary'[t] \cap op[Repairer].dangling = {}
                    /\ \A i \in DOMAIN zindex[t] :
                          zindex'[t][i] \cap op[Repairer].stale[i] = {}]_vars

(***************************************************************************)
(* The keys of the backend.  The tables belong to the schema "db".  A key  *)
(* is a row key "<schema>.<table>:<id>", a primary index key               *)
(* "<schema>.<table>::PRIMARY" or a secondary index key                    *)
(* "k:<schema>.<table>/<columns>".                                         *)
(***************************************************************************)
\* Table.Name: "db.Users", "db.Apps", "db.Sessions"
TableName(t) ==
    <<100, 98, 46>> \o (CASE t = "Users" -> <<85, 115, 101, 114, 115>>
                          [] t = "Sessions" -> <<83, 101, 115, 115, 105, 111, 110, 115>>
                          [] OTHER -> <<65, 112, 112, 115>>)

\* the name of a column as a Go string
ColumnName(p) ==
    CASE p = "name" -> <<110, 97, 109, 101>>
      [] p = "city" -> <<99, 105, 116, 121>>
      [] p = "pkg" -> <<112, 107, 103>>
      [] OTHER -> <<105, 100>>

\* table.idKey
idKey(t, id) == TableName(t) \o <<COLON>> \o id

\* basePrimaryIndex.RedisKey
PrimaryRedisKey(t) == TableName(t) \o <<COLON, COLON, 80, 82, 73, 77, 65, 82, 89>>

\* CompoundIndex.RedisKey: the columns joined by "_"
RedisKey(t, properties) ==
    <<107, COLON>> \o TableName(t) \o <<47>>
    \o Flatten([n \in DOMAIN properties |->
                   (IF n = 1 THEN <<>> ELSE <<95>>) \o ColumnName(properties[n])])

\* the row keys and the index keys that exist in the backend; a sorted set
\* without members does not exist
RowKeys(rs) == UNION {{idKey(t, id) : id \in DOMAIN rs[t]} : t \in DOMAIN rs}

IndexKeys(zp, zi) ==
    {PrimaryRedisKey(t) : t \in {u \in DOMAIN zp : zp[u] # {}}}
    \cup UNION {{RedisKey(t, Schema[t].indexes[i])
                   : i \in {j \in DOMAIN zi[t] : zi[t][j] # {}}} : t \in DOMAIN zi}

RedisKeys(rs, zp, zi) == RowKeys(rs) \cup IndexKeys(zp, zi)

isLetter(b) == (65 <= b /\ b <= 90) \/ (97 <= b /\ b <= 122)

isWordByte(b) == isLetter(b) \/ (48 <= b /\ b <= 57) \/ b = 95

\* the first position after from whose byte is not a letter, a digit or
\* "_"; 0 when there is none
RECURSIVE FirstNonWord(_, _)
FirstNonWord(key, from) ==
    IF from >= Len(key) THEN 0
    ELSE IF ~isWordByte(key[from + 1]) THEN from + 1
    ELSE FirstNonWord(key, from + 1)

\* the number of bytes of the rune at position i of key (1 for a byte that
\* starts no valid encoding); 0 when key ends before i
RuneSize(key, i) ==
    IF i > Len(key) THEN 0 ELSE DecodeRune(SubSeq(key, i, Len(key))).sz

\* a scanner whose pattern lets the id start with ":"
extractEntityIdAnyId(key) ==
    The({ The({ The({ IF /\ d >= 3 /\ key[d] = 46 /\ isLetter(key[1])
                         /\ c >= d + 3 /\ key[c] = COLON /\ isLetter(key[d + 1])
                         /\ sz > 0 /\ Len(key) > c + sz
                         /\ \A i \in c + sz + 1..Len(key) : key[i] # 10
                      THEN [err |-> FALSE, id |-> Slice(key, c, Len(key)),
                            table |-> Slice(key, d, c - 1 - d),
                            schem |-> Slice(key, 0, d - 1)]
                      ELSE [err |-> TRUE, id |-> <<>>, table |-> <<>>, schem |-> <<>>]
                      : sz \in {IF c = 0 THEN 0 ELSE RuneSize(key, c + 1)} })
                : c \in {IF d = 0 THEN 0 ELSE FirstNonWord(key, d)} })
          : d \in {FirstNonWord(key, 0)} })

\* extractEntityId: the match of
\*   ^([a-zA-Z][a-zA-Z0-9_]+)\.([a-zA-Z][a-zA-Z0-9_]+)\:([^:].+)$
\* The pattern is matched rune by rune: the id is a rune that is not ":" (a
\* line feed is one such rune, and so is a byte that starts no valid
\* encoding) and at least one more rune, none of them a line feed.
extractEntityId(key) ==
    The({ The({ The({ IF /\ d >= 3 /\ key[d] = 46 /\ isLetter(key[1])
                         /\ c >= d + 3 /\ key[c] = COLON /\ isLetter(key[d + 1])
                         /\ sz > 0 /\ key[c + 1] # COLON /\ Len(key) > c + sz
                         /\ \A i \in c + sz + 1..Len(key) : key[i] # 10
                      THEN [err |-> FALSE, id |-> Slice(key, c, Len(key)),
                            table |-> Slice(key, d, c - 1 - d),
                            schem |-> Slice(key, 0, d - 1)]
                      ELSE [err |-> TRUE, id |-> <<>>, table |-> <<>>, schem |-> <<>>]
                      : sz \in {IF c = 0 THEN 0 ELSE RuneSize(key, c + 1)} })
                : c \in {IF d = 0 THEN 0 ELSE FirstNonWord(key, d)} })
          : d \in {FirstNonWord(key, 0)} })

(***************************************************************************)
(* The entity scanner (Driver.repairEntities), run by the process Scanner, *)
(* and the loss of a secondary index key.  The operation of the Scanner is *)
(*   [kind, table, id, ents, changes, indexable, results, lost, picked,    *)
(*    key, did]:                                                           *)
(* key is the key the last RANDOMKEY returned and did what was done with   *)
(* it; table, id, ents (the loaded entity), changes (the change set of the *)
(* reindex), indexable (the property lists got for its changes) and        *)
(* results belong to the reindex in progress.  lost (the table and the     *)
(* number of the index whose key was deleted, <<>> when none was) and      *)
(* picked (the ids of the rows of that table the scanner has reindexed     *)
(* since) are history kept for the properties.                             *)
(***************************************************************************)
Scanner == "scanner"

ScannerOp ==
    [kind |-> "scanner", table |-> "", id |-> <<>>, ents |-> <<>>,
     changes |-> <<>>, indexable |-> <<>>,
     results |-> <<>>, lost |-> <<>>, picked |-> {}, key |-> <<>>, did |-> ""]

\* the changes table.reindex builds for a loaded entity: a NOOP per property
reindexChanges(ent) ==
    LET ps == SelectSeq(PropOrder, LAMBDA p : p \in DOMAIN ent.Properties)
    IN  [i \in DOMAIN ps |-> Change(ps[i], ent.Properties[ps[i]], "NOOP")]

\* an iteration of repairEntities begins: RANDOMKEY returns key, which
\* extractEntityId splits.  Nothing more is done for a key that is no row
\* key; the row key of a table that is not loaded is deleted next and the
\* entity of a loaded table is loaded next
RandomKey(s, key) ==
    /\ pc[s] = "idle"
    /\ \E m \in {extractEntityId(key)} :
          IF m.err \/ m.id = <<>>
          THEN /\ op' = [op EXCEPT ![s].key = key, ![s].did = "none"]
               /\ UNCHANGED pc
          ELSE \E ts \in {{u \in DOMAIN tables :
                              TableName(u) = m.schem \o <<46>> \o m.table}} :
                  IF ts = {}
                  THEN /\ op' = [op EXCEPT ![s].key = key, ![s].did = ""]
                       /\ pc' = [pc EXCEPT ![s] = "del"]
                  ELSE \E t \in ts :
                          /\ op' = [op EXCEPT ![s].key = key, ![s].did = "",
                                              ![s].table = t, ![s].id = m.id]
                          /\ pc' = [pc EXCEPT ![s] = "entity"]
    /\ UNCHANGED <<tables, rows, zprimary, zindex, propCache, resp, nextUid, nops>>

\* RANDOMKEY returns the row key of id in table t
ScanEntity(s, t, id) ==
    /\ id \in DOMAIN rows[t]
    /\ RandomKey(s, idKey(t, id))

\* RANDOMKEY returns any of the keys of the backend
RepairEntity(s) ==
    /\ pc[s] = "idle"
    /\ \E key \in RedisKeys(rows, zprimary, zindex) : RandomKey(s, key)

\* DEL key: the rows and the sorted sets of the backend without the key
DelRows(key) ==
    [t \in DOMAIN rows |->
        [id \in {k \in DOMAIN rows[t] : idKey(t, k) # key} |-> rows[t][id]]]

DelPrimary(key) ==
    [t \in DOMAIN zprimary |-> IF PrimaryRedisKey(t) = key THEN {} ELSE zprimary[t]]

DelIndexes(key) ==
    [t \in DOMAIN zindex |->
        [i \in DOMAIN zindex[t] |->
            IF RedisKey(t, Schema[t].indexes[i]) = key THEN {} ELSE zindex[t][i]]]

\* conn.Do("DEL", k) of the key of a table that is not loaded
DelDeadKey(s) ==
    /\ pc[s] = "del"
    /\ rows' = DelRows(op[s].key)
    /\ zprimary' = DelPrimary(op[s].key)
    /\ zindex' = DelIndexes(op[s].key)
    /\ pc' = [pc EXCEPT ![s] = "idle"]
    /\ op' = [op EXCEPT ![s].did = "DEL"]
    /\ UNCHANGED <<tables, propCache, resp, nextUid, nops>>

\* reindexEntity: t.load of the id; with no entity it returns, with one
\* table.reindex builds its change set; a panic of the load ends the
\* process
LoadEntity(s) ==
    /\ pc[s] = "entity"
    /\ \E ents \in {load(rows[op[s].table], <<op[s].id>>, <<>>)} :
          IF Panicked(ents)
          THEN Crash /\ UNCHANGED op
          ELSE IF Len(ents) = 0
          THEN /\ pc' = [pc EXCEPT ![s] = "idle"]
               /\ op' = [op EXCEPT ![s].table = "", ![s].id = <<>>,
                                   ![s].did = "none"]
          ELSE /\ pc' = [pc EXCEPT ![s] = "props"]
               /\ op' = [op EXCEPT ![s].ents = ents,
                                   ![s].changes =
                                       <<newEntityChange(ents[1].Id, "reindex",
                                                         reindexChanges(ents[1]))>>,
                                   ![s].indexable = <<>>]
    /\ UNCHANGED <<tables, rows, zprimary, zindex, propCache, resp, nextUid, nops>>

\* changeSet.Execute of the reindex: the EXEC of its row transaction
ReindexRows(s) ==
    /\ pc[s] = "rows"
    /\ \E t \in {op[s].table} :
       \E r \in {ExecuteRows(rows[t], op[s].indexable, op[s].changes)} :
           /\ rows' = [rows EXCEPT ![t] = r.rows]
           /\ op' = [op EXCEPT ![s].results = r.results, ![s].ents = <<>>,
                               ![s].changes = <<>>, ![s].indexable = <<>>,
                               ![s].did = "REINDEX"]
    /\ pc' = [pc EXCEPT ![s] = "reindex"]
    /\ UNCHANGED <<tables, zprimary, zindex, propCache, resp, nextUid, nops>>

\* changeSet.indexChanges of the reindex and the return of reindexEntity
ReindexEntity(s) ==
    /\ pc[s] = "reindex"
    /\ \E ic \in {indexChanges(tables[op[s].table], zprimary[op[s].table],
                               zindex[op[s].table], op[s].results)} :
          /\ zprimary' = [zprimary EXCEPT ![op[s].table] = ic.zprimary]
          /\ zindex' = [zindex EXCEPT ![op[s].table] = ic.zindex]
    /\ pc' = [pc EXCEPT ![s] = "idle"]
    /\ op' = [op EXCEPT ![s].table = "", ![s].id = <<>>, ![s].results = <<>>,
                        ![s].picked =
                            IF op[s].lost # <<>> /\ op[s].lost[1] = op[s].table
                            THEN @ \cup {op[s].id} ELSE @]
    /\ UNCHANGED <<tables, rows, propCache, resp, nextUid, nops>>

\* the key of secondary index i of table t is deleted from the backend
\* while no operation is in progress
DelIndexKey(s, t, i) ==
    /\ AllIdle
    /\ op[s].lost = <<>>
    /\ zindex' = [zindex EXCEPT ![t][i] = {}]
    /\ op' = [op EXCEPT ![s].lost = <<t, i>>]
    /\ UNCHANGED <<tables, rows, zprimary, propCache, pc, resp, nextUid, nops>>

InitReindex ==
    /\ tables = Schema
    /\ rows = [t \in DOMAIN Schema |-> EmptyMap]
    /\ zprimary = [t \in DOMAIN Schema |-> {}]
    /\ zindex = [t \in DOMAIN Schema |-> [i \in DOMAIN Schema[t].indexes |-> {}]]
    /\ propCache = EmptyMap
    /\ pc = [c \in {"c1", Scanner} |-> "idle"]
    /\ op = [c \in {"c1", Scanner} |-> IF c = Scanner THEN ScannerOp ELSE NoOp]
    /\ resp = [c \in {"c1", Scanner} |-> NoResp]
    /\ nextUid = 0
    /\ nops = 0

\* the batches put before the index key is lost
ReindexBatches(t) ==
    IF t = "Users"
    THEN {<<Ent(<<>>, [name |-> va], 0)>>,
          <<Ent(<<>>, [name |-> vB, city |-> va], 0), Ent(<<>>, [name |-> va], 0)>>,
          <<Ent(<<>>, [name |-> PosInf], 0)>>}
    ELSE {<<AppEnt>>}

\* the filter sets of the Gets on Users
ReindexFilters ==
    NameFilters
    \cup {[name |-> Filter("name", "=", <<PosInf>>)],
          [name |-> Filter("name", "=", <<vB>>), city |-> Filter("city", "=", <<va>>)]}

\* the clients write until an index key is lost; then the scanner works
\* and the clients read
NextReindex ==
    \/ /\ op[Scanner].lost = <<>>
       /\ \E t \in Tables : \E ents \in ReindexBatches(t) : Put("c1", t, ents)
    \/ /\ op[Scanner].lost = <<>>
       /\ \E chs \in NameChanges : Update("c1", "Apps", AllFilter, chs)
    \/ \E f \in ReindexFilters : Get("c1", "Users", f, 0, -1, NoOrder)
    \/ Find("c1")
    \/ Count("c1")
    \/ Load("c1")
    \/ PropsGet("c1")
    \/ PropsSet("c1")
    \/ ExecRows("c1")
    \/ ExecIndex("c1")
    \/ \E i \in DOMAIN UsersDesc.indexes : DelIndexKey(Scanner, "Users", i)
    \/ \E t \in Tables : \E id \in DOMAIN rows[t] : ScanEntity(Scanner, t, id)
    \/ LoadEntity(Scanner)
    \/ PropsGet(Scanner)
    \/ PropsSet(Scanner)
    \/ ReindexRows(Scanner)
    \/ ReindexEntity(Scanner)

SpecReindex == InitReindex /\ [][NextReindex]_vars

\* the scanner has reindexed every row of the table that lost an index key
\* and is at rest
PassDone ==
    /\ op[Scanner].lost # <<>>
    /\ pc[Scanner] = "idle"
    /\ DOMAIN rows[op[Scanner].lost[1]] \subseteq op[Scanner].picked

\* the row id stores, for every filter, the encoding of a value of the
\* filter
StoresFiltered(rowsT, id, filters) ==
    \A p \in DOMAIN filters :
        /\ p \in DOMAIN rowsT[id].fields
        /\ \E n \in DOMAIN filters[p].Values :
              rowsT[id].fields[p] = Encode(filters[p].Values[n])

\* C20: after the key of a secondary index is deleted and the entity
\* scanner has since reindexed every row of the table, a Get by a filter
\* set that this index answers returns exactly the entities whose row
\* satisfies the filters.
C20_ReindexRestoresIndex ==
    PassDone =>
        LET t == op[Scanner].lost[1]
            i == op[Scanner].lost[2]
        IN  \A f \in ReindexFilters :
               selectIndex(tables[t], f, NoOrder) = i
               => GetIds(t, rows[t], zprimary[t], zindex[t], f)
                    = {id \in DOMAIN rows[t] :
                          \/ Satisfies(rows[t], id, f)
                          \/ StoresFiltered(rows[t], id, f)}

(***************************************************************************)
(* The repair loop (Driver.repairLoop): the table scanner and the entity   *)
(* scanner run for ever beside a client that updates the table Sessions    *)
(* until MaxOps operations have been started.                              *)
(***************************************************************************)
\* the entities put before the loop starts, a scan chunk of them: all but
\* the first were put with a TTL and have expired
ConvergeEnts ==
    [i \in 1..ScanChunk |->
        Ent(<<>>, [name |-> IF i = 1 THEN va ELSE vB], IF i = 1 THEN 0 ELSE 1)]

\* the ids of the rows
ConvergeIds == {Uid(1)}

\* the store after a completed Put of ConvergeEnts, the expiry of the rows
\* that are not in ConvergeIds, and a run of table.repair that ended with
\* its process during the scan of the primary, before the last id; the
\* process that goes on holds the property lists memoized by the Put, or
\* has started since and holds none
InitConverge ==
    \E pl \in {putLoop(SessionsDesc, ConvergeEnts, [i \in 1..ScanChunk |-> Uid(i)])} :
    \E r \in {ExecuteAlone(SessionsDesc, EmptyMap, EmptyMap, pl.changes)} :
    \E ic \in {indexChanges(SessionsDesc, {},
                             [i \in DOMAIN SessionsDesc.indexes |-> {}], r.results)} :
        /\ tables = [t \in {"Sessions"} |-> SessionsDesc]
        /\ rows = [t \in {"Sessions"} |-> [id \in ConvergeIds |-> r.rows[id]]]
        /\ zprimary = [t \in {"Sessions"} |-> {Uid(1), Uid(ScanChunk)}]
        /\ zindex = [t \in {"Sessions"} |-> ic.zindex]
        /\ propCache \in {r.cache, EmptyMap}
        /\ pc = [c \in {"c1", Repairer, Scanner} |-> "idle"]
        /\ op = [c \in {"c1", Repairer, Scanner} |->
                    IF c = Scanner THEN ScannerOp ELSE NoOp]
        /\ resp = [c \in {"c1", Repairer, Scanner} |->
                      IF c = "c1" THEN Resp("put", FALSE, pl.ids, 0, 0, ScanChunk)
                      ELSE NoResp]
        /\ nextUid = ScanChunk
        /\ nops = 0

Writers == {"c1"}

\* the steps that carry on the operation of writer c
Continue(c) ==
    Find(c) \/ Repair(c) \/ PropsGet(c) \/ PropsSet(c) \/ ExecRows(c) \/ ExecIndex(c)

\* the steps of reindexEntity after the key was picked
ReindexSteps(s) ==
    LoadEntity(s) \/ PropsGet(s) \/ PropsSet(s) \/ ReindexRows(s) \/ ReindexEntity(s)

\* the next run of table.repair on the table
NextPass == RepairPass(Repairer, "Sessions") /\ UNCHANGED nops

\* the steps of a run of table.repair
PassStep ==
    \/ RepairScan(Repairer)
    \/ RepairVisit(Repairer)
    \/ RepairUnindex(Repairer)
    \/ RepairNextIndex(Repairer)
    \/ RepairEnd(Repairer)

NextConverge ==
    \/ \E c \in Writers : Update(c, "Sessions", AllFilter, <<Set("name", vB)>>)
    \/ \E c \in Writers : Continue(c)
    \/ NextPass
    \/ PassStep
    \/ \E id \in ConvergeIds : ScanEntity(Scanner, "Sessions", id)
    \/ ReindexSteps(Scanner)

\* the writers finish what they started, the table scanner runs pass after
\* pass, and RANDOMKEY returns every row key again and again
FairConverge ==
    /\ \A c \in Writers : WF_vars(Continue(c))
    /\ WF_vars(NextPass)
    /\ WF_vars(PassStep)
    /\ \A id \in ConvergeIds : SF_vars(ScanEntity(Scanner, "Sessions", id))
    /\ WF_vars(ReindexSteps(Scanner))

SpecConverge == InitConverge /\ [][NextConverge]_vars /\ FairConverge

\* the entries of secondary index i of a table derived from its rows: one
\* entry for every row that stores a column of the index
DerivedEntries(desc, rowsT, i) ==
    {entry(desc.indexes[i], id,
           [p \in Elems(desc.indexes[i]) |-> prepareValue(StoredValue(rowsT, id, p)).val]) :
        id \in {k \in DOMAIN rowsT :
                  \E p \in Elems(desc.indexes[i]) : p \in DOMAIN rowsT[k].fields}}
    \ {<<>>}

\* every index of every table holds exactly what its rows give
IndexesDerived ==
    \A t \in Tables :
        /\ zprimary[t] = DOMAIN rows[t]
        /\ \A i \in DOMAIN zindex[t] :
              zindex[t][i] = DerivedEntries(tables[t], rows[t], i)

\* C22: once the writes have stopped, the passes of the repair loop
\* eventually make every index equal to the entries derived from the
\* rows, and it stays so.
C22_RepairConverges == <>[]IndexesDerived

(***************************************************************************)
(* Concurrent Put: two clients put batches of new entities into Users      *)
(***************************************************************************)
\* the entities of the batches: none has an id
NewEnts ==
    {Ent(<<>>, [name |-> va], 0),
     Ent(<<>>, [name |-> vB, city |-> va], 0),
     Ent(<<>>, EmptyMap, 0)}

\* the batches: two entities each
NewBatches == {<<e1, e2>> : e1 \in NewEnts, e2 \in NewEnts}

NextPuts ==
    \/ \E c \in Clients : \E ents \in NewBatches : Put(c, "Users", ents)
    \/ \E c \in Clients : PropsGet(c)
    \/ \E c \in Clients : PropsSet(c)
    \/ \E c \in Clients : ExecRows(c)
    \/ \E c \in Clients : ExecIndex(c)

SpecPuts == InitTx /\ [][NextPuts]_vars

\* the entry of entity ent, stored under id, in an index on the columns
\* properties, all of which the entity carries
EntryOf(properties, id, ent) ==
    entry(properties, id,
          [p \in Elems(properties) |-> prepareValue(ent.Properties[p]).val])

\* every Put that ends has succeeded and has left, for each of its
\* entities, the row, the primary entry and the entries of the indexes whose
\* columns the entity carries; and when no Put is running the table holds
\* one row and one primary entry for every entity put
PutsAllStored(ok(_)) ==
    \A c \in Clients :
        (op[c].kind = "put" /\ pc'[c] = "idle" /\ ok(op[c].ents))
        => /\ ~resp'[c].err
           /\ \A k \in DOMAIN op[c].ents :
                 /\ op[c].ids[k] \in DOMAIN rows'["Users"]
                 /\ op[c].ids[k] \in zprimary'["Users"]
                 /\ \A i \in DOMAIN tables["Users"].indexes :
                       Elems(tables["Users"].indexes[i])
                           \subseteq DOMAIN op[c].ents[k].Properties
                       => EntryOf(tables["Users"].indexes[i], op[c].ids[k],
                                  op[c].ents[k]) \in zindex'["Users"][i]
           /\ AllIdle'
              => /\ Cardinality(DOMAIN rows'["Users"]) = nextUid'
                 /\ Cardinality(zprimary'["Users"]) = nextUid'

AnyEnts(ents) == TRUE

\* C23: concurrent Put batches of entities with empty ids all succeed and
\* leave one row and one primary entry per entity, and every entity has its
\* entry in every secondary index whose columns it carries.
C23_ConcurrentPuts == [][PutsAllStored(AnyEnts)]_vars

(***************************************************************************)
(* Batch and Transaction (batch.go).  One object, a Batch or a Transaction *)
(* on its own connection, is driven by a caller that keeps every promise   *)
(* it was handed.  The server holds one key, a hash.                       *)
(*   op[Pipe]: count, promises (indexes into heap), initialized are the    *)
(*   fields of the object; out is the connection's output buffer; closed   *)
(*   tells that the connection is closed; heap holds every promise handed  *)
(*   out, with the command it was returned for; last, err, ret and issued  *)
(*   record the last call, whether it returned an error, the promises it   *)
(*   returned and the commands it wrote to the server.                     *)
(***************************************************************************)
\* the number of promises the caller is handed
MaxSent == 3

Pipe == "pipe"

KvKey == <<107>>

\* Promise.Value of a promise that was not filled
NoValue == [type |-> "none", val |-> <<>>]

\* +OK and +QUEUED
StatusReply == [type |-> "status", val |-> <<>>]

ErrorReply == [type |-> "error", val |-> <<>>]

ArrayReply(vs) == [type |-> "array", val |-> vs]

NilReply == [type |-> "bulk", val |-> <<>>]

HmsetCmd(v) == [command |-> "HMSET", args |-> << <<"name", Encode(v)>> >>]

\* the commands the caller sends: GET fails on the hash with WRONGTYPE,
\* BOGUS is no command of the server
PipeCmds ==
    {HmsetCmd(va), HmsetCmd(vB),
     [command |-> "HMGET", args |-> <<"name">>],
     [command |-> "GET", args |-> <<>>],
     [command |-> "BOGUS", args |-> <<>>]}

KnownCommands == {"HMSET", "HMGET", "GET"}

Wire(name) == [command |-> name, args |-> <<>>]

\* the server executes one command on the key: [rows, reply]
Serve(rowsT, cmd) ==
    CASE cmd.command = "HMSET" ->
            [rows |-> ApplyCommand(rowsT, KvKey, cmd), reply |-> StatusReply]
      [] cmd.command = "HMGET" ->
            [rows |-> rowsT, reply |-> ArrayReply(HMGET(rowsT, KvKey, cmd.args))]
      [] cmd.command = "GET" ->
            [rows |-> rowsT,
             reply |-> IF KvKey \in DOMAIN rowsT THEN ErrorReply ELSE NilReply]
      [] OTHER -> [rows |-> rowsT, reply |-> ErrorReply]

\* the server executes the commands in order: [rows, replies]
RECURSIVE ServeAll(_, _, _)
ServeAll(rowsT, cmds, replies) ==
    IF cmds = <<>> THEN [rows |-> rowsT, replies |-> replies]
    ELSE The({ ServeAll(r.rows, Tail(cmds), Append(replies, r.reply))
               : r \in {Serve(rowsT, Head(cmds))} })

\* the server reads the stream a connection wrote, MULTI / EXEC / DISCARD
\* included.  st is [rows, multi, dirty, queued, replies].
RECURSIVE ServeStream(_, _)
ServeStream(st, stream) ==
    IF stream = <<>> THEN st
    ELSE The({ ServeStream(
                 CASE cmd.command = "MULTI" ->
                         [st EXCEPT !.multi = TRUE, !.dirty = FALSE, !.queued = <<>>,
                                    !.replies = Append(@, StatusReply)]
                   [] cmd.command = "DISCARD" ->
                         [st EXCEPT !.multi = FALSE, !.queued = <<>>,
                                    !.replies = Append(@, IF st.multi THEN StatusReply
                                                          ELSE ErrorReply)]
                   [] cmd.command = "EXEC" ->
                         IF ~st.multi \/ st.dirty
                         THEN [st EXCEPT !.multi = FALSE, !.queued = <<>>,
                                         !.replies = Append(@, ErrorReply)]
                         ELSE The({ [st EXCEPT !.multi = FALSE, !.queued = <<>>,
                                               !.rows = r.rows,
                                               !.replies = Append(@, ArrayReply(r.replies))]
                                    : r \in {ServeAll(st.rows, st.queued, <<>>)} })
                   [] st.multi ->
                         IF cmd.command \in KnownCommands
                         THEN [st EXCEPT !.queued = Append(@, cmd),
                                         !.replies = Append(@, StatusReply)]
                         ELSE [st EXCEPT !.dirty = TRUE,
                                         !.replies = Append(@, ErrorReply)]
                   [] OTHER ->
                         The({ [st EXCEPT !.rows = r.rows,
                                          !.replies = Append(@, r.reply)]
                               : r \in {Serve(st.rows, cmd)} }),
                 Tail(stream))
               : cmd \in {Head(stream)} })

\* the rows and the replies after the server has read the stream
Served(rowsT, stream) ==
    ServeStream([rows |-> rowsT, multi |-> FALSE, dirty |-> FALSE,
                 queued |-> <<>>, replies |-> <<>>], stream)

\* the number of replies conn.Receive returns before one is an error
Received(replies) ==
    IF \E i \in DOMAIN replies : replies[i].type = "error"
    THEN (CHOOSE i \in DOMAIN replies :
             /\ replies[i].type = "error"
             /\ \A k \in 1..(i - 1) : replies[k].type # "error") - 1
    ELSE Len(replies)

\* promises[i].Value = values[i] for the first n promises
FillFirst(heap, promises, values, n) ==
    [h \in DOMAIN heap |->
        IF \E i \in 1..n : promises[i] = h
        THEN [heap[h] EXCEPT !.val = values[CHOOSE i \in 1..n : promises[i] = h]]
        ELSE heap[h]]

\* NewBatch / NewTransaction; the caller's promises stay
NewPipe(kind, heap) ==
    [kind |-> kind, count |-> 0, promises |-> <<>>, initialized |-> FALSE,
     out |-> <<>>, closed |-> FALSE, heap |-> heap,
     last |-> "new", err |-> FALSE, ret |-> <<>>, issued |-> <<>>]

\* Batch.reset and Transaction.reset
reset(b) == [b EXCEPT !.count = 0, !.promises = <<>>, !.initialized = FALSE]

PipeUnchanged ==
    UNCHANGED <<tables, zprimary, zindex, propCache, pc, resp, nextUid>>

\* Batch.Send and Transaction.Send
Send(c, cmd) ==
    /\ ~op[c].closed
    /\ Len(op[c].heap) < MaxSent
    /\ op' = [op EXCEPT ![c] =
                [@ EXCEPT !.out = (IF op[c].kind = "tx" /\ ~op[c].initialized
                                   THEN Append(@, Wire("MULTI")) ELSE @) \o <<cmd>>,
                          !.initialized = (op[c].kind = "tx"),
                          !.count = @ + 1,
                          !.heap = Append(@, [cmd |-> cmd, val |-> NoValue]),
                          !.promises = Append(@, Len(op[c].heap) + 1),
                          !.last = "send", !.err = FALSE, !.ret = <<>>,
                          !.issued = <<>>]]
    /\ UNCHANGED <<rows, nops>>
    /\ PipeUnchanged

\* Batch.Execute: Flush, then one Receive per command up to the first
\* error reply
BatchExecute(c) ==
    /\ op[c].kind = "batch"
    /\ nops < MaxOps
    /\ nops' = nops + 1
    /\ \E s \in {Served(rows["kv"], op[c].out)} :
       \E n \in {Received(s.replies)} :
          /\ rows' = [rows EXCEPT !["kv"] = s.rows]
          /\ op' = [op EXCEPT ![c] =
                      [reset(@) EXCEPT
                         !.heap = FillFirst(@, op[c].promises, s.replies, n),
                         !.out = <<>>,
                         !.closed = @ \/ n < op[c].count,
                         !.err = n < op[c].count,
                         !.ret = IF n < op[c].count THEN <<>> ELSE op[c].promises,
                         !.issued = op[c].out,
                         !.last = "execute"]]
    /\ PipeUnchanged

\* the promises get the values of the results in the order of the results
TxFill(heap, promises, results) == FillFirst(heap, promises, results, Len(results))

\* Transaction.Execute: Do("EXEC") writes EXEC, flushes, reads every pending
\* reply and returns the last one, with an error when one of them is an
\* error
TxExecute(c) ==
    /\ op[c].kind = "tx"
    /\ nops < MaxOps
    /\ nops' = nops + 1
    /\ IF ~op[c].initialized
       THEN /\ op' = [op EXCEPT ![c] =
                        [reset(@) EXCEPT !.err = FALSE, !.ret = op[c].promises,
                                         !.issued = <<>>, !.last = "execute"]]
            /\ UNCHANGED rows
       ELSE \E s \in {Served(rows["kv"], Append(op[c].out, Wire("EXEC")))} :
            \E failed \in {\E i \in DOMAIN s.replies : s.replies[i].type = "error"} :
               /\ rows' = [rows EXCEPT !["kv"] = s.rows]
               /\ op' = [op EXCEPT ![c] =
                           [reset(@) EXCEPT
                              !.heap = IF failed THEN @
                                       ELSE TxFill(@, op[c].promises,
                                                   s.replies[Len(s.replies)].val),
                              !.out = <<>>,
                              !.closed = @ \/ failed,
                              !.err = failed,
                              !.ret = IF failed THEN <<>> ELSE op[c].promises,
                              !.issued = Append(op[c].out, Wire("EXEC")),
                              !.last = "execute"]]
    /\ PipeUnchanged

\* Batch.Abort: the buffer is flushed, the replies are drained and the
\* connection is closed
BatchAbort(c) ==
    /\ op[c].kind = "batch"
    /\ ~op[c].closed
    /\ nops < MaxOps
    /\ nops' = nops + 1
    /\ \E s \in {Served(rows["kv"], op[c].out)} :
          /\ rows' = [rows EXCEPT !["kv"] = s.rows]
          /\ op' = [op EXCEPT ![c] =
                      [reset(@) EXCEPT !.out = <<>>, !.closed = TRUE, !.err = FALSE,
                                       !.ret = <<>>, !.issued = op[c].out,
                                       !.last = "abort"]]
    /\ PipeUnchanged

\* an Abort that flushes the queued commands like Batch.Abort and ends the
\* MULTI with EXEC
TxAbortFlush(c) ==
    /\ op[c].kind = "tx"
    /\ ~op[c].closed
    /\ nops < MaxOps
    /\ nops' = nops + 1
    /\ \E stream \in {IF op[c].initialized THEN Append(op[c].out, Wire("EXEC"))
                      ELSE <<>>} :
       \E s \in {Served(rows["kv"], stream)} :
          /\ rows' = [rows EXCEPT !["kv"] = s.rows]
          /\ op' = [op EXCEPT ![c] =
                      [reset(@) EXCEPT
                         !.out = <<>>, !.closed = TRUE,
                         !.err = \E i \in DOMAIN s.replies : s.replies[i].type = "error",
                         !.ret = <<>>, !.issued = stream, !.last = "abort"]]
    /\ PipeUnchanged

\* Transaction.Abort: Do("DISCARD") when MULTI was sent, then reset and
\* Close
TxAbort(c) ==
    /\ op[c].kind = "tx"
    /\ ~op[c].closed
    /\ nops < MaxOps
    /\ nops' = nops + 1
    /\ \E stream \in {IF op[c].initialized THEN Append(op[c].out, Wire("DISCARD"))
                      ELSE <<>>} :
       \E s \in {Served(rows["kv"], stream)} :
          /\ rows' = [rows EXCEPT !["kv"] = s.rows]
          /\ op' = [op EXCEPT ![c] =
                      [reset(@) EXCEPT
                         !.out = <<>>, !.closed = TRUE,
                         !.err = \E i \in DOMAIN s.replies : s.replies[i].type = "error",
                         !.ret = <<>>, !.issued = stream, !.last = "abort"]]
    /\ PipeUnchanged

\* the caller dials a new connection and makes a new object on it
Redial(c) ==
    /\ op[c].closed
    /\ op' = [op EXCEPT ![c] = NewPipe(op[c].kind, op[c].heap)]
    /\ UNCHANGED <<rows, nops>>
    /\ PipeUnchanged

InitPipe ==
    /\ tables = EmptyMap
    /\ rows = [t \in {"kv"} |-> EmptyMap]
    /\ zprimary = EmptyMap
    /\ zindex = EmptyMap
    /\ propCache = EmptyMap
    /\ pc = [c \in {Pipe} |-> "idle"]
    /\ \E kind \in {"batch", "tx"} : op = [c \in {Pipe} |-> NewPipe(kind, <<>>)]
    /\ resp = [c \in {Pipe} |-> NoResp]
    /\ nextUid = 0
    /\ nops = 0

NextPipe ==
    \/ \E cmd \in PipeCmds : Send(Pipe, cmd)
    \/ BatchExecute(Pipe)
    \/ TxExecute(Pipe)
    \/ BatchAbort(Pipe)
    \/ TxAbort(Pipe)
    \/ Redial(Pipe)

SpecPipe == InitPipe /\ [][NextPipe]_vars

\* the step is a call of Execute / of Abort
Executes(c) == nops' = nops + 1 /\ op'[c].last = "execute"

Aborts(c) == nops' = nops + 1 /\ op'[c].last = "abort"

\* the commands of the promises the object holds, in the order of the Sends
SentCmds(b) == [i \in DOMAIN b.promises |-> b.heap[b.promises[i]].cmd]

\* the reply of the server to the i-th command sent: its result in EXEC for
\* a Transaction, and its reply when it was queued if the server refuses to
\* run the transaction
SentReply(rowsT, b, i) ==
    IF b.kind = "tx" /\ \E k \in DOMAIN b.promises :
                           SentCmds(b)[k].command \notin KnownCommands
    THEN IF SentCmds(b)[i].command \in KnownCommands THEN StatusReply ELSE ErrorReply
    ELSE ServeAll(rowsT, SentCmds(b), <<>>).replies[i]

IsReset(b) == b.count = 0 /\ b.promises = <<>> /\ ~b.initialized

\* the promises of the object hold no value before the step; after it they
\* hold the replies to their commands; and the object is reset
ExecuteFills(c) ==
    Executes(c)
    => /\ \A i \in DOMAIN op[c].promises :
             /\ op[c].heap[op[c].promises[i]].val = NoValue
             /\ op'[c].heap[op[c].promises[i]].val = SentReply(rows["kv"], op[c], i)
       /\ IsReset(op'[c])

\* C24: after Execute the i-th promise holds the reply of the i-th command
\* sent, for any sequence of Sends; it held no value before, and the batch
\* is reset.
C24_PromisesFilled == [][ExecuteFills(Pipe)]_vars


\* C25: the Abort of a Transaction lets none of the queued commands take
\* effect, leaves every promise without a value and resets the
\* transaction: an Execute that follows it without a Send issues nothing.
C25_AbortDiscards ==
    [][/\ (Aborts(Pipe) /\ op[Pipe].kind = "tx")
          => /\ rows' = rows
             /\ \A i \in DOMAIN op[Pipe].promises :
                   op'[Pipe].heap[op[Pipe].promises[i]].val = NoValue
             /\ IsReset(op'[Pipe])
       /\ (Executes(Pipe) /\ op[Pipe].kind = "tx" /\ op[Pipe].last = "abort")
          => /\ op'[Pipe].issued = <<>>
             /\ rows' = rows
             /\ op'[Pipe].heap = op[Pipe].heap]_vars

\* a Transaction with two queued commands, one of them a write, was aborted
C25_Witness ==
    /\ op[Pipe].kind = "tx"
    /\ op[Pipe].last = "abort"
    /\ Len(op[Pipe].heap) = 2
    /\ op[Pipe].heap[1].cmd = HmsetCmd(va)
    /\ Wire("DISCARD") \in Elems(op[Pipe].issued)
    /\ \A h \in DOMAIN op[Pipe].heap : op[Pipe].heap[h].val = NoValue

(***************************************************************************)
(* Driver.Dump (compound.go) over basePrimaryIndex.Scan (primary.go): the  *)
(* caller, the dump goroutine and the scan goroutine.  The channels are    *)
(* unbuffered, so a send and its receive are one step of both sides.       *)
(*   pc[Caller]: idle, consuming (the select on ch and errch), stopping    *)
(*     (blocked in rstopch <- true), returned, finished (got the nil)      *)
(*   pc[Dumper]: none, recv (range idch), load (tbl.load of a full chunk), *)
(*     emit (the select on ch and rstopch, full chunk), stopping (blocked  *)
(*     in stopch <- true), loadtail (tbl.load of the last chunk), tail     *)
(*     (ch <- ent, last chunk), report (errch <- nil), done                *)
(*   pc[Scan]: none, scanning (before i.scan), push (the select on idch    *)
(*     and stopch), done (idch is closed)                                  *)
(***************************************************************************)
DumpChunk == 50

Caller == "c1"

Dumper == "dump"

Scan == "scan"

\* the numbers of rows of the dumped table
DumpSizes == {0, 1, DumpChunk - 1, DumpChunk, DumpChunk + 1, 2 * DumpChunk}

DumpRows(n) ==
    [id \in {Uid(k) : k \in 1..n} |->
        [fields |-> [f \in {"name"} |-> Encode(va)], ttl |-> FALSE]]

\* the table Sessions with n rows and their index entries
InitDump ==
    /\ tables = [t \in {"Sessions"} |-> SessionsDesc]
    /\ \E n \in DumpSizes :
          /\ rows = [t \in {"Sessions"} |-> DumpRows(n)]
          /\ zprimary = [t \in {"Sessions"} |-> DOMAIN DumpRows(n)]
          /\ zindex = [t \in {"Sessions"} |->
                          [i \in DOMAIN SessionsDesc.indexes |->
                              DerivedEntries(SessionsDesc, DumpRows(n), i)]]
    /\ propCache = EmptyMap
    /\ pc = [c \in {Caller, Dumper, Scan} |-> IF c = Caller THEN "idle" ELSE "none"]
    /\ op = [c \in {Caller, Dumper, Scan} |->
                CASE c = Caller -> [emitted |-> <<>>, errs |-> <<>>, closed |-> FALSE]
                  [] c = Dumper -> [chunk |-> <<>>, loaded |-> <<>>, ents |-> <<>>]
                  [] c = Scan -> [offset |-> 0, ids |-> <<>>, n |-> 0, total |-> 0]]
    /\ resp = [c \in {Caller, Dumper, Scan} |-> NoResp]
    /\ nextUid = 0
    /\ nops = 0

DumpUnchanged ==
    UNCHANGED <<tables, rows, zprimary, zindex, propCache, resp, nextUid, nops>>

\* Driver.Dump: both goroutines are started and the channels returned
Dump(c) ==
    /\ pc[c] = "idle"
    /\ pc' = [pc EXCEPT ![c] = "consuming", ![Dumper] = "recv", ![Scan] = "scanning"]
    /\ UNCHANGED op
    /\ DumpUnchanged

\* i.scan(offset, chunk, ascending by id) in the scan goroutine
ScanChunkRead ==
    /\ pc[Scan] = "scanning"
    /\ \E ids \in {primaryScan(zprimary["Sessions"], op[Scan].offset, DumpChunk,
                               [By |-> IdKey, Ascending |-> TRUE])} :
          op' = [op EXCEPT ![Scan].ids = ids, ![Scan].n = Len(ids),
                           ![Scan].total = Cardinality(zprimary["Sessions"])]
    /\ pc' = [pc EXCEPT ![Scan] = "push"]
    /\ DumpUnchanged

\* the ids of the chunk are pushed: the scan ends or goes on at the next
\* offset
ScanChunkEnd ==
    /\ pc[Scan] = "push"
    /\ op[Scan].ids = <<>>
    /\ IF op[Scan].n = 0 \/ op[Scan].total < op[Scan].offset + DumpChunk
       THEN pc' = [pc EXCEPT ![Scan] = "done"] /\ UNCHANGED op
       ELSE /\ pc' = [pc EXCEPT ![Scan] = "scanning"]
            /\ op' = [op EXCEPT ![Scan].offset = @ + DumpChunk]
    /\ DumpUnchanged

\* idch <- id meets the range over idch; a full chunk is loaded next
PassId ==
    /\ pc[Scan] = "push"
    /\ op[Scan].ids # <<>>
    /\ pc[Dumper] = "recv"
    /\ \E chunk \in {Append(op[Dumper].chunk, Head(op[Scan].ids))} :
          /\ op' = [op EXCEPT ![Scan].ids = Tail(@), ![Dumper].chunk = chunk]
          /\ pc' = [pc EXCEPT ![Dumper] = IF Len(chunk) = DumpChunk THEN "load"
                                          ELSE "recv"]
    /\ DumpUnchanged

\* an end of the id stream that drops the ids of the last, partial chunk
IdsClosedNoTail ==
    /\ pc[Dumper] = "recv"
    /\ pc[Scan] = "done"
    /\ op' = [op EXCEPT ![Dumper].chunk = <<>>, ![Dumper].ents = <<>>]
    /\ pc' = [pc EXCEPT ![Dumper] = "report"]
    /\ DumpUnchanged

\* idch is closed: the ids left in the chunk are loaded next
IdsClosed ==
    /\ pc[Dumper] = "recv"
    /\ pc[Scan] = "done"
    /\ pc' = [pc EXCEPT ![Dumper] = IF Len(op[Dumper].chunk) > 0 THEN "loadtail"
                                    ELSE "report"]
    /\ UNCHANGED op
    /\ DumpUnchanged

\* tbl.load of the chunk: the next command of its batch and, after the
\* last, the entities of the replies; a panic of readEntity ends the process
LoadChunk ==
    /\ pc[Dumper] \in {"load", "loadtail"}
    /\ \E got \in {Append(op[Dumper].loaded,
                           loadOne(rows["Sessions"],
                                   op[Dumper].chunk[Len(op[Dumper].loaded) + 1],
                                   <<>>))} :
          IF Len(got) < Len(op[Dumper].chunk)
          THEN /\ op' = [op EXCEPT ![Dumper].loaded = got]
               /\ UNCHANGED pc
          ELSE \E ents \in {Flatten(got)} :
                  IF Panicked(ents)
                  THEN Crash /\ UNCHANGED op
                  ELSE /\ op' = [op EXCEPT ![Dumper].chunk = <<>>,
                                           ![Dumper].loaded = <<>>,
                                           ![Dumper].ents = ents]
                       /\ pc' = [pc EXCEPT ![Dumper] =
                                    IF @ = "load"
                                    THEN (IF ents = <<>> THEN "recv" ELSE "emit")
                                    ELSE (IF ents = <<>> THEN "report" ELSE "tail")]
    /\ DumpUnchanged

\* ch <- ent meets the caller's select
Emit ==
    /\ pc[Dumper] \in {"emit", "tail"}
    /\ pc[Caller] = "consuming"
    /\ op' = [op EXCEPT ![Dumper].ents = Tail(@),
                        ![Caller].emitted = Append(@, Head(op[Dumper].ents).Id)]
    /\ pc' = [pc EXCEPT ![Dumper] =
                 IF Len(op[Dumper].ents) > 1 THEN @
                 ELSE IF @ = "emit" THEN "recv" ELSE "report"]
    /\ DumpUnchanged

\* errch <- nil meets the caller's select; the dump goroutine returns and
\* closes ch
Report ==
    /\ pc[Dumper] = "report"
    /\ pc[Caller] = "consuming"
    /\ op' = [op EXCEPT ![Caller].errs = Append(@, "nil")]
    /\ pc' = [pc EXCEPT ![Dumper] = "done", ![Caller] = "finished"]
    /\ DumpUnchanged

\* the caller stops consuming and sends on the stop channel
CallerStop ==
    /\ pc[Caller] = "consuming"
    /\ pc' = [pc EXCEPT ![Caller] = "stopping"]
    /\ UNCHANGED op
    /\ DumpUnchanged

\* the caller stops consuming and closes the stop channel
CallerClose ==
    /\ pc[Caller] = "consuming"
    /\ pc' = [pc EXCEPT ![Caller] = "returned"]
    /\ op' = [op EXCEPT ![Caller].closed = TRUE]
    /\ DumpUnchanged

\* the select of the dump goroutine takes <-rstopch
TakeStop ==
    /\ pc[Dumper] = "emit"
    /\ pc[Caller] = "stopping" \/ op[Caller].closed
    /\ pc' = [pc EXCEPT ![Dumper] = "stopping", ![Caller] = "returned"]
    /\ UNCHANGED op
    /\ DumpUnchanged

\* stopch <- true meets the select of the scan goroutine: both return
StopScan ==
    /\ pc[Dumper] = "stopping"
    /\ pc[Scan] = "push"
    /\ op[Scan].ids # <<>>
    /\ pc' = [pc EXCEPT ![Dumper] = "done", ![Scan] = "done"]
    /\ UNCHANGED op
    /\ DumpUnchanged

\* a Dump that the caller consumes to its end
NextDump ==
    \/ Dump(Caller)
    \/ ScanChunkRead
    \/ ScanChunkEnd
    \/ PassId
    \/ IdsClosed
    \/ LoadChunk
    \/ Emit
    \/ Report

\* no goroutine and no caller that can take a step waits for ever
SpecDump == InitDump /\ [][NextDump]_vars /\ WF_vars(NextDump)

\* the caller has the nil, every row was emitted once, and both goroutines
\* have returned
DumpDone ==
    /\ pc[Caller] = "finished"
    /\ op[Caller].errs = <<"nil">>
    /\ Len(op[Caller].emitted) = Cardinality(DOMAIN rows["Sessions"])
    /\ Elems(op[Caller].emitted) = DOMAIN rows["Sessions"]
    /\ pc[Dumper] = "done"
    /\ pc[Scan] = "done"

\* C26: with no concurrent writes the Dump of a table emits every row
\* exactly once, then reports completion with one nil on the error
\* channel, after which both goroutines have terminated.
C26_DumpCompletes == <>[]DumpDone

\* a table of one row more than a chunk was dumped
C26_Witness == DumpDone /\ Len(op[Caller].emitted) = DumpChunk + 1

\* a Dump that the caller may stop at any point
NextDumpStop ==
    \/ NextDump
    \/ CallerStop
    \/ CallerClose
    \/ TakeStop
    \/ StopScan

SpecDumpStop == InitDump /\ [][NextDumpStop]_vars /\ WF_vars(NextDumpStop)

\* C27: after the caller has signalled the stop channel the caller
\* returns and the dump goroutine and the scan goroutine terminate.
C27_StopTerminates ==
    (pc[Caller] \in {"stopping", "returned"})
       ~> (pc[Caller] = "returned" /\ pc[Dumper] = "done" /\ pc[Scan] = "done")

(***************************************************************************)
(* Server.handleQuery (server) and the Validate methods of package query   *)
(* and of schema.Entity.  A query is                                       *)
(*   [kind, Table, Filters, Offset, Limit, Order, Changes, Entities]       *)
(* and a Validate operator is TRUE when the method returns an error.       *)
(***************************************************************************)
\* Filter.Validate
FilterValidate(f) ==
    IF f.Property = "" THEN TRUE
    ELSE IF Len(f.Values) = 0 /\ f.Operator # "ALL" THEN TRUE
    ELSE CASE f.Operator = "=" -> Len(f.Values) > 1
           [] f.Operator = "><" -> Len(f.Values) # 2
           [] f.Operator = "IN" -> Len(f.Values) < 1
           [] f.Operator = "ALL" -> f.Property # IdKey
           [] OTHER -> TRUE

\* a Change.Validate that supports every op
ChangeValidateAnyOp(c) == c.Property = "" /\ c.Op # "EXP"

\* Change.Validate
ChangeValidate(c) ==
    IF c.Property = "" /\ c.Op # "EXP" THEN TRUE
    ELSE c.Op \notin {"SET", "DEL", "INCR", "EXP", "PDEL"}

\* Paging.Validate
PagingValidate(offset, limit) == offset < 0 \/ limit = 0 \/ limit < -1

\* Entity.Validate: the values of the model are all of the allowed types
EntityValidate(e) == "" \in DOMAIN e.Properties

\* PutQuery.Validate
PutQueryValidate(q) ==
    \/ q.Table = ""
    \/ Len(q.Entities) = 0
    \/ \E i \in DOMAIN q.Entities : EntityValidate(q.Entities[i])

\* GetQuery.Validate (Ordering.Validate returns nil)
GetQueryValidate(q) ==
    \/ q.Table = ""
    \/ DOMAIN q.Filters = {}
    \/ \E p \in DOMAIN q.Filters : FilterValidate(q.Filters[p])
    \/ PagingValidate(q.Offset, q.Limit)

\* UpdateQuery.Validate
UpdateQueryValidate(q) ==
    \/ q.Table = ""
    \/ DOMAIN q.Filters = {}
    \/ Len(q.Changes) = 0
    \/ \E p \in DOMAIN q.Filters : FilterValidate(q.Filters[p])
    \/ \E i \in DOMAIN q.Changes : ChangeValidate(q.Changes[i])

\* DelQuery.Validate
DelQueryValidate(q) ==
    \/ q.Table = ""
    \/ \E p \in DOMAIN q.Filters : FilterValidate(q.Filters[p])

Validate(q) ==
    CASE q.kind = "put" -> PutQueryValidate(q)
      [] q.kind = "get" -> GetQueryValidate(q)
      [] q.kind = "update" -> UpdateQueryValidate(q)
      [] q.kind = "delete" -> DelQueryValidate(q)

Query(kind, table) ==
    [kind |-> kind, Table |-> table, Filters |-> EmptyMap, Offset |-> 0,
     Limit |-> -1, Order |-> NoOrder, Changes |-> <<>>, Entities |-> <<>>]

\* the request of a query the server has answered with an error
Rejected(q) ==
    [NoOp EXCEPT !.kind = "rejected:" \o q.kind, !.table = q.Table,
                 !.filters = q.Filters, !.offset = q.Offset, !.limit = q.Limit,
                 !.uchanges = q.Changes, !.ents = q.Entities]

\* the query is answered with an error before the table is touched
Reject(c, q) ==
    /\ Begin(c)
    /\ pc' = [pc EXCEPT ![c] = "idle"]
    /\ op' = [op EXCEPT ![c] = Rejected(q)]
    /\ resp' = [resp EXCEPT ![c] = ErrResp(q.kind)]
    /\ UNCHANGED <<tables, rows, zprimary, zindex, propCache, nextUid>>

\* Server.handleQuery followed by Driver.Put / Get / Update / Delete: the
\* query is validated, the table is looked up and the table's method starts
handleQuery(c, q) ==
    IF Validate(q) THEN Reject(c, q)
    ELSE IF q.Table \notin DOMAIN tables THEN Reject(c, q)
    ELSE CASE q.kind = "put" -> Put(c, q.Table, q.Entities)
           [] q.kind = "get" ->
                Get(c, q.Table, q.Filters, q.Offset, q.Limit, q.Order)
           [] q.kind = "update" -> Update(c, q.Table, q.Filters, q.Changes)
           [] q.kind = "delete" -> Delete(c, q.Table, q.Filters)

\* the queries a client sends: well-formed ones on table Users and, for every
\* kind, queries with one defect each
ByName(v) == [name |-> Filter("name", "=", <<v>>)]

AllById == [id |-> Filter(IdKey, "ALL", <<>>)]

GoodQueries ==
    {[Query("put", "Users") EXCEPT !.Entities = <<Ent(<<>>, [name |-> va], 0)>>],
     [Query("put", "Users") EXCEPT !.Entities = <<Ent(<<>>, [name |-> va], 1)>>],
     [Query("get", "Users") EXCEPT !.Filters = AllById],
     [Query("update", "Users") EXCEPT !.Filters = ByName(va),
                                      !.Changes = <<Set("name", vB)>>],
     [Query("delete", "Users") EXCEPT !.Filters = ByName(va)]}

\* the defects of a query of each kind
Defects(q) ==
    {[q EXCEPT !.Table = ""], [q EXCEPT !.Table = "Nope"]}
    \cup (IF q.kind = "put"
          THEN {[q EXCEPT !.Entities = <<>>],
                [q EXCEPT !.Entities = <<Ent(<<>>, [p \in {""} |-> va], 0)>>]}
          ELSE {[q EXCEPT !.Filters = EmptyMap],
                [q EXCEPT !.Filters = [name |-> Filter("name", "ALL", <<>>)]],
                [q EXCEPT !.Filters = [name |-> Filter("name", "><", <<va>>)]],
                [q EXCEPT !.Filters =
                    [name |-> Filter("name", "><", <<va, va, vB>>)]],
                [q EXCEPT !.Filters = [name |-> Filter("name", "=", <<va, vB>>)]],
                [q EXCEPT !.Filters = [name |-> Filter("name", ">", <<va>>)]]})
    \cup (IF q.kind = "get"
          THEN {[q EXCEPT !.Limit = 0], [q EXCEPT !.Offset = -1],
                [q EXCEPT !.Limit = -2]}
          ELSE {})
    \cup (IF q.kind = "update"
          THEN {[q EXCEPT !.Changes = <<>>],
                [q EXCEPT !.Changes = <<Set("name", vB), Change("name", va, "SADD")>>],
                [q EXCEPT !.Changes = <<Change("", va, "SET")>>]}
          ELSE {})

BadQueries == UNION {Defects(q) : q \in GoodQueries}

Queries == GoodQueries \cup BadQueries

NextServer ==
    \/ \E c \in Clients : \E q \in Queries : handleQuery(c, q)
    \/ \E c \in Clients : DeleteLoop(c)
    \/ \E c \in Clients : Repair(c)
    \/ \E c \in Clients : Find(c)
    \/ \E c \in Clients : Count(c)
    \/ \E c \in Clients : Load(c)
    \/ \E c \in Clients : PropsGet(c)
    \/ \E c \in Clients : PropsSet(c)
    \/ \E c \in Clients : ExecRows(c)
    \/ \E c \in Clients : ExecIndex(c)
    \/ \E t \in Tables : \E id \in DOMAIN rows[t] : ExpireRow(t, id)

SpecServer == Init /\ [][NextServer]_vars

\* the failures the queries are checked for: an empty table name, no
\* filters, ALL on a property other than id, a Between filter without exactly
\* two values, limit 0 or a negative offset, a change with an unsupported op,
\* and a table the driver has not loaded
Failing(q) ==
    \/ q.Table = ""
    \/ q.Table \notin DOMAIN tables
    \/ q.kind # "put" /\ DOMAIN q.Filters = {}
    \/ \E p \in DOMAIN q.Filters :
          \/ q.Filters[p].Operator = "ALL" /\ q.Filters[p].Property # IdKey
          \/ q.Filters[p].Operator = "><" /\ Len(q.Filters[p].Values) # 2
    \/ q.kind = "get" /\ (q.Limit = 0 \/ q.Offset < 0)
    \/ \E i \in DOMAIN q.Changes :
          q.Changes[i].Op \notin {"SET", "DEL", "INCR", "EXP", "PDEL"}

\* C28: a query that fails validation, or that names a table the driver has
\* not loaded, is answered with an error response and changes no row and no
\* index of the backend.
C28_InvalidQueryNoMutation ==
    [][\A c \in Clients : \A q \in Queries :
          (Failing(q) /\ handleQuery(c, q))
             => (resp'[c].err /\ UNCHANGED <<rows, zprimary, zindex>>)]_vars

\* an Update whose second change has an unsupported op was answered with an
\* error while the table held a row it selects
C28_Witness ==
    /\ op["c1"].kind = "rejected:update"
    /\ Len(op["c1"].uchanges) = 2
    /\ resp["c1"].err
    /\ \E id \in DOMAIN rows["Users"] : rows["Users"][id].fields["name"] = Encode(va)

(***************************************************************************)
(* The round trip of a value through Encoder.Encode and Decoder.Decode, as *)
(* TestNumberConvert makes it.  op[c].v is the value, op[c].data its       *)
(* encoding and resp[c] the [err, val] of the decoding.                    *)
(***************************************************************************)
\* the values that are encoded: integers about zero, small unsigned
\* integers, floats of integer value, floats with two to seven decimals,
\* +Inf, the booleans, texts, binaries and timestamps
SixDecimalFloats ==
    {FloatV(k) : k \in -3..3} \cup {FloatE7(n) : n \in {100000, -10000}}

CodecValues ==
    {IntV(k) : k \in -12..12}
    \cup {UintV(k) : k \in 0..12}
    \cup SixDecimalFloats
    \cup {FloatE7(n) : n \in {1, 1234567, 12345678, -1234564}}
    \cup {PosInf, Bool(TRUE), Bool(FALSE)}
    \cup {Text(b) : b \in {<<>>, <<97>>, <<66>>, <<49>>}}
    \cup {Binary(b) : b \in {<<>>, <<0>>, <<120>>}}
    \cup {Timestamp(TRUE, 0, 0), Timestamp(FALSE, 0, 0), Timestamp(FALSE, 1, 0),
          Timestamp(FALSE, 1, 5), Timestamp(FALSE, -1, 0),
          Timestamp(FALSE, 1500000000, 0)}

InitCodec ==
    /\ tables = EmptyMap
    /\ rows = EmptyMap
    /\ zprimary = EmptyMap
    /\ zindex = EmptyMap
    /\ propCache = EmptyMap
    /\ pc = [c \in {Caller} |-> "idle"]
    /\ \E v \in CodecValues : op = [c \in {Caller} |-> [v |-> v, data |-> <<>>]]
    /\ resp = [c \in {Caller} |-> [err |-> FALSE, val |-> Nil]]
    /\ nextUid = 0
    /\ nops = 0

\* b, err := encoder.Encode(dat.num)
EncodeValue(c) ==
    /\ pc[c] = "idle"
    /\ op' = [op EXCEPT ![c].data = Encode(op[c].v)]
    /\ pc' = [pc EXCEPT ![c] = "encoded"]
    /\ UNCHANGED <<tables, rows, zprimary, zindex, propCache, resp, nextUid, nops>>

\* decoded, err := decoder.Decode(b, schema.UnknownType)
DecodeData(c) ==
    /\ pc[c] = "encoded"
    /\ resp' = [resp EXCEPT ![c] = Decode(op[c].data)]
    /\ pc' = [pc EXCEPT ![c] = "decoded"]
    /\ UNCHANGED <<tables, rows, zprimary, zindex, propCache, op, nextUid, nops>>

NextCodec == EncodeValue(Caller) \/ DecodeData(Caller)

SpecCodec == InitCodec /\ [][NextCodec]_vars

\* w is equal to v and of the same type: floats are equal as numbers and
\* timestamps as instants
SameValue(v, w) ==
    /\ v.type = w.type
    /\ IF v.type = "Timestamp"
       THEN ~v.val.zero = ~w.val.zero /\ (~v.val.zero => v.val = w.val)
       ELSE v = w /\ v # NaN

\* C29: for every supported typed value v, decoding the encoding of v
\* yields a value equal to v and of the same type.
C29_RoundTrip ==
    pc[Caller] = "decoded"
       => ~resp[Caller].err /\ SameValue(op[Caller].v, resp[Caller].val)

\* the types and values the round trip does give back: Int, Bool, Text,
\* Binary, the floats of at most six decimals and the timestamps of whole
\* seconds other than the zero time
RoundTrips(v) ==
    CASE v.type = "Uint" -> FALSE
      [] v.type = "Float" -> v \in SixDecimalFloats
      [] v.type = "Timestamp" -> ~v.val.zero /\ v.val.nsec = 0
      [] OTHER -> TRUE

C29_RoundTripWhere ==
    (pc[Caller] = "decoded" /\ RoundTrips(op[Caller].v))
       => ~resp[Caller].err /\ SameValue(op[Caller].v, resp[Caller].val)

(***************************************************************************)
(* basePrimaryIndex.find beside a Put of the same id: two clients on table *)
(* Users, one id given by the callers.                                     *)
(***************************************************************************)

\* the entity of the given id, without and with a TTL
GivenEnts == {Ent(GivenId, [name |-> va], ttl) : ttl \in {0, 1}}

NextFind ==
    \/ \E c \in Clients : \E e \in GivenEnts : Put(c, "Users", <<e>>)
    \/ \E c \in Clients :
          Get(c, "Users", [id |-> Filter(IdKey, "IN", <<GivenId>>)], 0, -1, NoOrder)
    \/ \E c \in Clients : Repair(c)
    \/ \E c \in Clients : Find(c)
    \/ \E c \in Clients : Load(c)
    \/ \E c \in Clients : PropsGet(c)
    \/ \E c \in Clients : PropsSet(c)
    \/ \E c \in Clients : ExecRows(c)
    \/ \E c \in Clients : ExecIndex(c)
    \/ ExpireRow("Users", GivenId)

SpecFind == InitTx /\ [][NextFind]_vars

\* C30: primary find removes from the primary set only ids whose row does
\* not exist: once a find and a concurrent Put of the same id have both
\* completed, the id of a stored row is a member of the primary set.
C30_StoredIdInPrimary ==
    AllIdle => \A id \in DOMAIN rows["Users"] : id \in zprimary["Users"]

(***************************************************************************)
(* Driver.handleSchema under Driver.monitorChanges, beside the lookups of  *)
(* Driver.getTable.  A schema is [Name, gen, Tables]; gen tells the        *)
(* versions of a schema apart and a table object carries the gen of the    *)
(* schema it was built from.  op[Monitor] holds Driver.schemas, the schema *)
(* in hand (sc), the tables not yet visited (todo) and, as history, the    *)
(* table map and schema map when handleSchema began (pre, preSchemas) and  *)
(* whether the last handleSchema returned an error (failed).               *)
(***************************************************************************)
Monitor == "monitor"

\* version gen of the schema "evme": tables Users and Apps; the primary of
\* the tables in bad has a type the driver does not know
SchemaVersion(gen, bad) ==
    [Name |-> "evme", gen |-> gen,
     Tables |-> [t \in {"Users", "Apps"} |->
                   [primary |-> IF t \in bad
                                THEN [type |-> "bogus", columns |-> <<>>]
                                ELSE Schema[t].primary,
                    indexes |-> Schema[t].indexes,
                    gen |-> gen]]]

\* Driver.newTable: [err, tbl]
newTable(desc) ==
    [err |-> desc.primary.type \notin {"random", "compound"}, tbl |-> desc]

InitSchema ==
    /\ tables = SchemaVersion(1, {}).Tables
    /\ rows = [t \in {"Users", "Apps"} |-> EmptyMap]
    /\ zprimary = [t \in {"Users", "Apps"} |-> {}]
    /\ zindex = [t \in {"Users", "Apps"} |-> [i \in DOMAIN Schema[t].indexes |-> {}]]
    /\ propCache = EmptyMap
    /\ pc = [c \in {Caller, Monitor} |-> "idle"]
    /\ op = [c \in {Caller, Monitor} |->
                IF c = Caller THEN [seen |-> EmptyMap]
                ELSE [schemas |-> [n \in {"evme"} |-> SchemaVersion(1, {})],
                      sc |-> SchemaVersion(1, {}), todo |-> {},
                      pre |-> SchemaVersion(1, {}).Tables,
                      preSchemas |-> [n \in {"evme"} |-> SchemaVersion(1, {})],
                      failed |-> FALSE]]
    /\ resp = [c \in {Caller, Monitor} |-> NoResp]
    /\ nextUid = 0
    /\ nops = 0

SchemaUnchanged == UNCHANGED <<rows, zprimary, zindex, propCache, resp, nextUid>>

\* Driver.monitorChanges: a schema arrives on the channel of updates and
\* handleSchema begins
SchemaArrives(sc) ==
    /\ pc[Monitor] = "idle"
    /\ nops < MaxOps
    /\ nops' = nops + 1
    /\ pc' = [pc EXCEPT ![Monitor] = "tables"]
    /\ op' = [op EXCEPT ![Monitor].sc = sc, ![Monitor].todo = DOMAIN sc.Tables,
                        ![Monitor].pre = tables,
                        ![Monitor].preSchemas = op[Monitor].schemas,
                        ![Monitor].failed = FALSE]
    /\ UNCHANGED tables
    /\ SchemaUnchanged

\* one iteration of the loop of handleSchema over sc.Tables, a Go map: the
\* table is built and, under the write lock, put into Driver.tables; an
\* error of newTable returns
HandleTable(t) ==
    /\ pc[Monitor] = "tables"
    /\ t \in op[Monitor].todo
    /\ \E n \in {newTable(op[Monitor].sc.Tables[t])} :
          IF n.err
          THEN /\ pc' = [pc EXCEPT ![Monitor] = "idle"]
               /\ op' = [op EXCEPT ![Monitor].failed = TRUE, ![Monitor].todo = {}]
               /\ UNCHANGED tables
          ELSE /\ tables' = [u \in DOMAIN tables \cup {t} |->
                               IF u = t THEN n.tbl ELSE tables[u]]
               /\ op' = [op EXCEPT ![Monitor].todo = @ \ {t}]
               /\ UNCHANGED pc
    /\ UNCHANGED nops
    /\ SchemaUnchanged

\* the end of handleSchema: r.schemas[sc.Name] = sc
HandleSchemaEnd ==
    /\ pc[Monitor] = "tables"
    /\ op[Monitor].todo = {}
    /\ pc' = [pc EXCEPT ![Monitor] = "idle"]
    /\ op' = [op EXCEPT ![Monitor].schemas =
                 [n \in DOMAIN @ \cup {op[Monitor].sc.Name} |->
                     IF n = op[Monitor].sc.Name THEN op[Monitor].sc ELSE @[n]]]
    /\ UNCHANGED <<tables, nops>>
    /\ SchemaUnchanged

\* Driver.getTable under the read lock, as a query of client c makes it:
\* the client notes the version of the table object it got
getTable(c, name) ==
    /\ pc[c] = "idle"
    /\ name \in DOMAIN tables
    /\ op' = [op EXCEPT ![c].seen =
                 [n \in DOMAIN @ \cup {name} |->
                     IF n = name THEN tables[name].gen ELSE @[n]]]
    /\ UNCHANGED <<tables, pc, nops>>
    /\ SchemaUnchanged

\* the versions that arrive: the next version of evme, well-formed or with
\* a table that cannot be built
NextSchema ==
    \/ \E bad \in {{}, {"Users"}, {"Apps"}} :
          SchemaArrives(SchemaVersion(op[Monitor].sc.gen + 1, bad))
    \/ \E t \in {"Users", "Apps"} : HandleTable(t)
    \/ HandleSchemaEnd
    \/ \E t \in {"Users", "Apps"} : getTable(Caller, t)

SpecSchema == InitSchema /\ [][NextSchema]_vars

\* C31: the tables of a schema are replaced atomically: the table map a
\* query reads holds, for the tables of the schema, all the old table
\* objects or all the new ones, and when building a table fails the table
\* map and the schema map are as they were when the schema arrived.
C31_AtomicSwap ==
    /\ \A t1 \in DOMAIN tables : \A t2 \in DOMAIN tables :
          tables[t1].gen = tables[t2].gen
    /\ op[Monitor].failed
          => /\ tables = op[Monitor].pre
             /\ op[Monitor].schemas = op[Monitor].preSchemas

(***************************************************************************)
(* The properties a DELETE change reads, after other changes of the        *)
(* process have gone through changeSet.indexableProperties: the store      *)
(* holds one entity of Users and one of Apps, put by completed Puts.       *)
(***************************************************************************)
\* the store of table t after a Put of ents into the empty table, with the
\* property cache the Put leaves behind: [rows, zprimary, zindex, cache]
StoredBy(t, ents, uids, cache) ==
    The({ The({ [rows |-> r.rows, zprimary |-> ic.zprimary, zindex |-> ic.zindex,
                 cache |-> r.cache]
                : ic \in {indexChanges(Schema[t], {},
                                       [i \in DOMAIN Schema[t].indexes |-> {}],
                                       r.results)} })
          : r \in {ExecuteAlone(Schema[t], EmptyMap, cache,
                               putLoop(Schema[t], ents, uids).changes)} })

InitProps ==
    \E u \in {StoredBy("Users", <<Ent(<<>>, [name |-> va, city |-> vB], 0)>>,
                       <<Uid(1)>>, EmptyMap)} :
       \E a \in {StoredBy("Apps", <<AppEnt>>, <<Uid(1)>>, u.cache)} :
          /\ tables = Schema
          /\ rows = [t \in DOMAIN Schema |-> IF t = "Users" THEN u.rows ELSE a.rows]
          /\ zprimary = [t \in DOMAIN Schema |->
                            IF t = "Users" THEN u.zprimary ELSE a.zprimary]
          /\ zindex = [t \in DOMAIN Schema |->
                          IF t = "Users" THEN u.zindex ELSE a.zindex]
          /\ propCache = a.cache
          /\ pc = [c \in {"c1"} |-> "idle"]
          /\ op = [c \in {"c1"} |-> NoOp]
          /\ resp = [c \in {"c1"} |-> NoResp]
          /\ nextUid = 1
          /\ nops = 0

NextProps ==
    \/ \E c \in Clients, t \in Tables :
          \E chs \in {<<Expire(1)>>, <<Set("name", vB)>>,
                      <<Set("name", Binary(<<99, 100>>))>>} :
             Update(c, t, [id |-> Filter(IdKey, "ALL", <<>>)], chs)
    \/ \E c \in Clients, t \in Tables :
          Delete(c, t, [id |-> Filter(IdKey, "ALL", <<>>)])
    \/ \E c \in Clients : \E f \in NameFilters : Get(c, "Users", f, 0, -1, NoOrder)
    \/ \E c \in Clients : DeleteLoop(c)
    \/ \E c \in Clients : Find(c)
    \/ \E c \in Clients : Count(c)
    \/ \E c \in Clients : Load(c)
    \/ \E c \in Clients : PropsGet(c)
    \/ \E c \in Clients : PropsSet(c)
    \/ \E c \in Clients : ExecRows(c)
    \/ \E c \in Clients : ExecIndex(c)

SpecProps == InitProps /\ [][NextProps]_vars

\* the primary columns of the table and the columns of its secondary
\* indexes
IndexedColumns(desc) ==
    Elems(PrimaryProperties(desc))
    \cup UNION {Elems(desc.indexes[i]) : i \in DOMAIN desc.indexes}

\* C32: in any sequence of operations on the tables of the process, the
\* properties read for a DELETE change on a table include the primary
\* columns and every column of every secondary index of the table.
C32_DeleteReadsIndexed ==
    [][\A c \in Clients :
          (pc[c] = "rows" /\ op[c].kind = "delete" /\ pc'[c] # "rows")
          => \A p \in IndexedColumns(tables[op[c].table]) :
                \A i \in DOMAIN op[c].indexable :
                   Contains(op[c].indexable[i], p)]_vars

\* the entries of the sorted set that end in "|::" and the id
EntriesFor(zset, id) ==
    {e \in zset : /\ Len(e) >= Len(id) + 3
                  /\ SubSeq(e, Len(e) - Len(id) - 2, Len(e))
                        = <<PIPE, COLON, COLON>> \o id}

\* C33: after an Update that changes only column name of an entity covered
\* by the compound index on [name, city], city being stored and not part of
\* the change, the index holds exactly one entry for the entity, built from
\* the new value of name and the stored value of city.
C33_CompoundEntryCarriedOver ==
    [][\A c \in Clients :
          (/\ Completes(c, "update")
           /\ op[c].table = "Users"
           /\ op[c].uchanges \in NameChanges)
          => \A id \in Elems(op[c].ids) :
                StoredValue(op[c].pre, id, "city").type = "Text"
                => EntriesFor(zindex'["Users"][2], id)
                      = {entry(<<"name", "city">>, id,
                               [p \in {"name", "city"} |->
                                  IF p = "name"
                                  THEN prepareValue(op[c].uchanges[1].Value).val
                                  ELSE prepareValue(StoredValue(op[c].pre, id,
                                                                "city")).val])}]_vars

(***************************************************************************)
(* changeSet.indexChanges feeding the index pipelines of table Users: the  *)
(* caller and, one after the other, the goroutines of                      *)
(* basePrimaryIndex.Pipeline and CompoundIndex.Pipeline.  The channels are *)
(* unbuffered.  op[Caller] holds the diffs, the number fed to the current  *)
(* pipeline (fed), the pipeline (idx, 0 the primary), the values received  *)
(* from the error channels (got) and the commands queued on the            *)
(* transaction (tx); op[Indexer] the entries of addCmd and delCmd, the     *)
(* value to report (val) and the goroutines started and ended.             *)
(*   pc[Caller]: idle, feed (pipe <- eDiff), await (<-errchan), exec       *)
(*               (tx.Execute), returned                                    *)
(*   pc[Indexer]: none, recv (range ch), report (ech <- val), done         *)
(***************************************************************************)
MaxDiffs == 2

Indexer == "indexer"

\* an entityDiff of entity id whose name goes from old to new
PipeDiff(id, ct, old, new) ==
    [err |-> FALSE, id |-> id, changeType |-> ct,
     diffs |-> [p \in {"id", "name", "city"} |->
                  IF p = "name"
                  THEN [oldVal |-> prepareValue(old).val, newVal |-> prepareValue(new).val]
                  ELSE [oldVal |-> Nil, newVal |-> Nil]]]

\* an insert, an update that changes the entry, one that does not, a delete
PipeDiffs ==
    {PipeDiff(Uid(1), "insert", Nil, va), PipeDiff(Uid(1), "update", va, vB),
     PipeDiff(Uid(2), "update", va, va), PipeDiff(Uid(2), "delete", va, Nil)}

RECURSIVE DiffSeqs(_)
DiffSeqs(n) ==
    IF n = 0 THEN {<<>>}
    ELSE DiffSeqs(n - 1)
         \cup {Append(ds, d) : ds \in {x \in DiffSeqs(n - 1) : Len(x) = n - 1},
                               d \in PipeDiffs}

InitIndexing ==
    /\ tables = [t \in {"Users"} |-> UsersDesc]
    /\ rows = [t \in {"Users"} |-> EmptyMap]
    /\ zprimary = [t \in {"Users"} |-> {}]
    /\ zindex = [t \in {"Users"} |-> [i \in DOMAIN UsersDesc.indexes |-> {}]]
    /\ propCache = EmptyMap
    /\ pc = [c \in {Caller, Indexer} |-> IF c = Caller THEN "idle" ELSE "none"]
    /\ \E ds \in DiffSeqs(MaxDiffs) :
          op = [c \in {Caller, Indexer} |->
                  IF c = Caller
                  THEN [diffs |-> ds, fed |-> 0, idx |-> 0, got |-> <<>>,
                        tx |-> <<>>, ret |-> ""]
                  ELSE [add |-> <<>>, del |-> <<>>, val |-> "", started |-> 0,
                        ended |-> 0]]
    /\ resp = [c \in {Caller, Indexer} |-> NoResp]
    /\ nextUid = 0
    /\ nops = 0

IndexingUnchanged ==
    UNCHANGED <<tables, rows, zprimary, zindex, propCache, resp, nextUid, nops>>

\* indexChanges calls Pipeline of the primary: the goroutine starts
IndexChangesStart ==
    /\ pc[Caller] = "idle"
    /\ pc' = [pc EXCEPT ![Caller] = "feed", ![Indexer] = "recv"]
    /\ op' = [op EXCEPT ![Indexer].started = @ + 1]
    /\ IndexingUnchanged

\* pipe <- eDiff meets the range over ch: the goroutine takes the diff
FeedDiff ==
    /\ pc[Caller] = "feed"
    /\ op[Caller].fed < Len(op[Caller].diffs)
    /\ pc[Indexer] = "recv"
    /\ \E pl \in {IF op[Caller].idx = 0
                  THEN PrimaryPipeline(<<op[Caller].diffs[op[Caller].fed + 1]>>)
                  ELSE CompoundPipeline(UsersDesc.indexes[op[Caller].idx],
                                        <<op[Caller].diffs[op[Caller].fed + 1]>>)} :
          op' = [op EXCEPT ![Caller].fed = @ + 1,
                           ![Indexer].del = @ \o SortLex(pl.del),
                           ![Indexer].add = @ \o SortLex(pl.add)]
    /\ UNCHANGED pc
    /\ IndexingUnchanged

\* close(pipe): the caller goes on to <-errchan
ClosePipe ==
    /\ pc[Caller] = "feed"
    /\ op[Caller].fed = Len(op[Caller].diffs)
    /\ pc' = [pc EXCEPT ![Caller] = "await"]
    /\ UNCHANGED op
    /\ IndexingUnchanged

\* the command the goroutine sends on the transaction
IndexCmd(command, idx, entries) ==
    [command |-> command, idx |-> idx, entries |-> entries]

\* a goroutine that returns on a failed send without reporting it
QueueCommandsSilent ==
    /\ pc[Indexer] = "recv"
    /\ pc[Caller] = "await"
    /\ \E delFails \in BOOLEAN, addFails \in BOOLEAN :
          \E del \in {op[Indexer].del}, add \in {op[Indexer].add} :
             IF (Len(del) > 0 /\ delFails) \/ (Len(add) > 0 /\ addFails)
             THEN /\ pc' = [pc EXCEPT ![Indexer] = "done"]
                  /\ op' = [op EXCEPT ![Indexer].ended = @ + 1]
             ELSE /\ op' = [op EXCEPT
                       ![Indexer].val = "nil",
                       ![Caller].tx = @
                          \o (IF Len(del) > 0
                              THEN <<IndexCmd("ZREM", op[Caller].idx, del)>> ELSE <<>>)
                          \o (IF Len(add) > 0
                              THEN <<IndexCmd("ZADD", op[Caller].idx, add)>> ELSE <<>>)]
                  /\ pc' = [pc EXCEPT ![Indexer] = "report"]
    /\ IndexingUnchanged

\* the range over ch ends: delCmd and then addCmd are sent on the
\* transaction when they hold entries; a failed send ends the goroutine
\* with the error as the value to report
QueueCommands ==
    /\ pc[Indexer] = "recv"
    /\ pc[Caller] = "await"
    /\ \E delFails \in BOOLEAN, addFails \in BOOLEAN :
          \E del \in {op[Indexer].del}, add \in {op[Indexer].add} :
             op' = [op EXCEPT
                ![Indexer].val =
                    IF (Len(del) > 0 /\ delFails) \/ (Len(add) > 0 /\ addFails)
                    THEN "err" ELSE "nil",
                ![Caller].tx = @
                    \o (IF Len(del) > 0 /\ ~delFails
                        THEN <<IndexCmd("ZREM", op[Caller].idx, del)>> ELSE <<>>)
                    \o (IF Len(add) > 0 /\ ~addFails
                           /\ ~(Len(del) > 0 /\ delFails)
                        THEN <<IndexCmd("ZADD", op[Caller].idx, add)>> ELSE <<>>)]
    /\ pc' = [pc EXCEPT ![Indexer] = "report"]
    /\ IndexingUnchanged

\* ech <- val meets <-errchan: the goroutine returns; the caller returns
\* the error, goes on to the pipeline of the next index, or goes on to
\* execute the transaction
ReportValue ==
    /\ pc[Indexer] = "report"
    /\ pc[Caller] = "await"
    /\ IF op[Indexer].val = "err"
       THEN /\ pc' = [pc EXCEPT ![Caller] = "returned", ![Indexer] = "done"]
            /\ op' = [op EXCEPT ![Caller].got = Append(@, "err"),
                                ![Caller].ret = "err",
                                ![Indexer].ended = @ + 1]
       ELSE IF op[Caller].idx < Len(UsersDesc.indexes)
       THEN /\ pc' = [pc EXCEPT ![Caller] = "feed", ![Indexer] = "recv"]
            /\ op' = [op EXCEPT ![Caller].got = Append(@, "nil"),
                                ![Caller].idx = @ + 1,
                                ![Caller].fed = 0,
                                ![Indexer] = [add |-> <<>>, del |-> <<>>,
                                              val |-> "",
                                              started |-> @.started + 1,
                                              ended |-> @.ended + 1]]
       ELSE /\ pc' = [pc EXCEPT ![Caller] = "exec", ![Indexer] = "done"]
            /\ op' = [op EXCEPT ![Caller].got = Append(@, "nil"),
                                ![Indexer].ended = @ + 1]
    /\ IndexingUnchanged

\* the index sets [zprimary, zindex] of a table after the commands queued
\* on the transaction are executed in turn
RECURSIVE ExecuteQueued(_, _, _)
ExecuteQueued(z, tx, i) ==
    IF i > Len(tx) THEN z
    ELSE LET cmd == tx[i]
             run(zset) == IF cmd.command = "ZREM" THEN zset \ Elems(cmd.entries)
                          ELSE zset \cup Elems(cmd.entries)
         IN  ExecuteQueued(IF cmd.idx = 0
                           THEN [z EXCEPT !.zprimary = run(@)]
                           ELSE [z EXCEPT !.zindex[cmd.idx] = run(@)],
                           tx, i + 1)

\* tx.Execute at the end of indexChanges: the queued commands of the
\* pipelines are executed and indexChanges returns
IndexExecute ==
    /\ pc[Caller] = "exec"
    /\ \E z \in {ExecuteQueued([zprimary |-> zprimary["Users"],
                                zindex |-> zindex["Users"]], op[Caller].tx, 1)} :
          /\ zprimary' = [zprimary EXCEPT !["Users"] = z.zprimary]
          /\ zindex' = [zindex EXCEPT !["Users"] = z.zindex]
    /\ pc' = [pc EXCEPT ![Caller] = "returned"]
    /\ op' = [op EXCEPT ![Caller].ret = "nil"]
    /\ UNCHANGED <<tables, rows, propCache, resp, nextUid, nops>>

NextIndexing ==
    \/ IndexChangesStart
    \/ FeedDiff
    \/ ClosePipe
    \/ QueueCommands
    \/ ReportValue
    \/ IndexExecute

\* a goroutine or a caller that can take a step takes it
SpecIndexing == InitIndexing /\ [][NextIndexing]_vars /\ WF_vars(NextIndexing)

\* the commands pipeline idx has queued on the transaction
QueuedBy(idx) == SelectSeq(op[Caller].tx, LAMBDA cmd : cmd.idx = idx)

\* every pipeline has delivered at most one value and has queued at most
\* one ZREM and at most one ZADD, the ZREM first
PipelinesOrderly ==
    /\ Len(op[Caller].got) <= op[Indexer].started
    /\ op[Indexer].ended <= Len(op[Caller].got)
    /\ \A idx \in 0..Len(UsersDesc.indexes) :
          [i \in DOMAIN QueuedBy(idx) |-> QueuedBy(idx)[i].command]
             \in {<<>>, <<"ZREM">>, <<"ZADD">>, <<"ZREM", "ZADD">>}

\* indexChanges has returned, every goroutine it started has delivered its
\* one value and has ended
IndexingDone ==
    /\ pc[Caller] = "returned"
    /\ pc[Indexer] = "done"
    /\ Len(op[Caller].got) = op[Indexer].started
    /\ op[Indexer].ended = op[Indexer].started

\* C34: for every index pipeline and every number of diffs, after the
\* caller has fed the diffs and closed the input channel exactly one value
\* is delivered on the error channel and the goroutine terminates, so
\* indexChanges never blocks for ever; each pipeline queues at most one
\* bulk remove and at most one bulk add, the remove before the add.
C34_PipelinesTerminate == []PipelinesOrderly /\ <>[]IndexingDone

\* indexChanges has returned without error after two diffs went through
\* the three pipelines, the index on [name] got a ZREM and then a ZADD, and
\* the transaction has written the entries
C34_Witness ==
    /\ IndexingDone
    /\ op[Caller].ret = "nil"
    /\ Len(op[Caller].diffs) = 2
    /\ Len(op[Caller].got) = 3
    /\ Len(QueuedBy(1)) = 2
    /\ zprimary["Users"] # {}
    /\ zindex["Users"][1] # {}

(***************************************************************************)
(* The entity scanner over the keys of the backend.  The process has       *)
(* loaded the table Users; the backend also holds the keys of the table    *)
(* Apps, which the process has not loaded.                                 *)
(***************************************************************************)
InitKeys ==
    \E u \in {StoredBy("Users", <<Ent(<<>>, [name |-> va, city |-> vB], 0),
                                  Ent(GivenId, [name |-> vB], 0)>>,
                       <<Uid(1), Uid(2)>>, EmptyMap)} :
       \E a \in {StoredBy("Apps", <<AppEnt>>, <<Uid(1)>>, EmptyMap)} :
          /\ tables = [t \in {"Users"} |-> UsersDesc]
          /\ rows = [t \in DOMAIN Schema |-> IF t = "Users" THEN u.rows ELSE a.rows]
          /\ zprimary = [t \in DOMAIN Schema |->
                            IF t = "Users" THEN u.zprimary ELSE a.zprimary]
          /\ zindex = [t \in DOMAIN Schema |->
                          IF t = "Users" THEN u.zindex ELSE a.zindex]
          /\ propCache = u.cache
          /\ pc = [c \in {"c1", Scanner} |-> "idle"]
          /\ op = [c \in {"c1", Scanner} |-> IF c = Scanner THEN ScannerOp ELSE NoOp]
          /\ resp = [c \in {"c1", Scanner} |-> NoResp]
          /\ nextUid = 1
          /\ nops = 0

\* a client works on the loaded table while the scanner runs
NextKeys ==
    \/ \E chs \in NameChanges \cup {<<Expire(1)>>} :
          Update("c1", "Users", AllFilter, chs)
    \/ \E id \in {GivenId, Uid(1)} :
          Delete("c1", "Users", [id |-> Filter(IdKey, "IN", <<id>>)])
    \/ \E f \in NameFilters : Get("c1", "Users", f, 0, -1, NoOrder)
    \/ DeleteLoop("c1")
    \/ Repair("c1")
    \/ Find("c1")
    \/ Count("c1")
    \/ Load("c1")
    \/ PropsGet("c1")
    \/ PropsSet("c1")
    \/ ExecRows("c1")
    \/ ExecIndex("c1")
    \/ RepairEntity(Scanner)
    \/ DelDeadKey(Scanner)
    \/ LoadEntity(Scanner)
    \/ PropsGet(Scanner)
    \/ PropsSet(Scanner)
    \/ ReindexRows(Scanner)
    \/ ReindexEntity(Scanner)

SpecKeys == InitKeys /\ [][NextKeys]_vars

\* C35: the entity scanner never deletes a row key whose table is loaded
\* and never deletes an index key; for a row of a loaded table it submits a
\* REINDEX change that sends no row command, so the stored properties and
\* the TTL of the row are unchanged by the scanner.
C35_ScannerKeepsRowsAndIndexKeys ==
    [][pc'[Scanner] # pc[Scanner] \/ op'[Scanner] # op[Scanner]
       => /\ \A t \in DOMAIN tables : rows'[t] = rows[t]
          /\ IndexKeys(zprimary, zindex) \subseteq IndexKeys(zprimary', zindex')
          /\ RowKeys(rows) \ RowKeys(rows')
                \subseteq UNION {{idKey(t, id) : id \in DOMAIN rows[t]}
                                    : t \in DOMAIN rows \ DOMAIN tables}]_vars

\* the scanner has deleted the row key of the table that is not loaded and
\* is reindexing a row of the loaded table whose TTL a client has set
C35_Witness ==
    /\ rows["Apps"] = EmptyMap
    /\ pc[Scanner] = "reindex"
    /\ op[Scanner].did = "REINDEX"
    /\ op[Scanner].id \in DOMAIN rows["Users"]
    /\ rows["Users"][op[Scanner].id].ttl

(***************************************************************************)
(* The id of a secondary index entry.  An entity id with the values        *)
(* op[c].vals writes the entry CompoundIndex.entry builds for the index on *)
(* op[c].properties; Find and repair recover the id from the entry with    *)
(* extractId.  resp[c].id is the recovered id.                             *)
(***************************************************************************)
\* ids and texts without and with "::" and ":"
EntryIds == {Uid(1), GivenId, <<97, COLON, COLON, 98>>, <<COLON, COLON>>}

EntryTexts ==
    {Text(<<97>>), Text(<<97, COLON, COLON, 98>>), Text(<<COLON, COLON>>),
     Text(<<97, COLON>>)}

InitEntry ==
    /\ tables = EmptyMap
    /\ rows = EmptyMap
    /\ zprimary = EmptyMap
    /\ zindex = EmptyMap
    /\ propCache = EmptyMap
    /\ pc = [c \in {Caller} |-> "idle"]
    /\ \E id \in EntryIds, name \in EntryTexts \cup {Nil},
          city \in {Nil, vB, Text(<<COLON, COLON, 99>>)},
          i \in DOMAIN UsersDesc.indexes :
          op = [c \in {Caller} |->
                  [id |-> id, properties |-> UsersDesc.indexes[i],
                   vals |-> [p \in {"name", "city"} |->
                               prepareValue(IF p = "name" THEN name ELSE city).val],
                   entry |-> <<>>]]
    /\ resp = [c \in {Caller} |-> [err |-> FALSE, id |-> <<>>]]
    /\ nextUid = 0
    /\ nops = 0

\* the entry the index pipeline adds for the entity
WriteEntry(c) ==
    /\ pc[c] = "idle"
    /\ op' = [op EXCEPT ![c].entry = entry(op[c].properties, op[c].id, op[c].vals)]
    /\ pc' = [pc EXCEPT ![c] = "written"]
    /\ UNCHANGED <<tables, rows, zprimary, zindex, propCache, resp, nextUid, nops>>

\* CompoundIndex.Find and table.repair: extractId of the entry read
RecoverId(c) ==
    /\ pc[c] = "written"
    /\ op[c].entry # <<>>
    /\ resp' = [resp EXCEPT ![c].id = extractId(op[c].entry)]
    /\ pc' = [pc EXCEPT ![c] = "recovered"]
    /\ UNCHANGED <<tables, rows, zprimary, zindex, propCache, op, nextUid, nops>>

NextEntry == WriteEntry(Caller) \/ RecoverId(Caller)

SpecEntry == InitEntry /\ [][NextEntry]_vars

\* does the byte string hold "::"?
HasColons(s) == \E i \in 1..Len(s) - 1 : s[i] = COLON /\ s[i + 1] = COLON

\* C36: for every secondary index entry "v1|...|vK|::<id>", also when a
\* column value or the id holds "::", the id recovered from the entry by
\* Find and by repair is the id of the entity that wrote the entry.
C36_IdRecovered ==
    pc[Caller] = "recovered" => resp[Caller].id = op[Caller].id

\* the same where neither the entry's values nor the id hold "::"
C36_IdRecoveredWhere ==
    (/\ pc[Caller] = "recovered"
     /\ ~HasColons(op[Caller].id)
     /\ \A n \in DOMAIN op[Caller].properties :
           ~HasColons(op[Caller].vals[op[Caller].properties[n]].val))
    => resp[Caller].id = op[Caller].id

(***************************************************************************)
(* Increment on an indexed column: the table Ints with its index on        *)
(* [score], one client that puts, increments, reads.                       *)
(***************************************************************************)
\* query.Increment
Increment(prop, amount) == Change(prop, IntV(amount), "INCR")

InitIncrement == InitWith([t \in {"Ints"} |-> ScoresDesc], {"c1"})

NextIncrement ==
    \/ \E v \in {IntV(0), IntV(1)} : Put("c1", "Ints", <<Ent(<<>>, [score |-> v], 0)>>)
    \/ \E d \in {1, 2} : Update("c1", "Ints", AllFilter, <<Increment("score", d)>>)
    \/ \E n \in 0..MaxNum :
          Get("c1", "Ints", [score |-> Filter("score", "=", <<IntV(n)>>)], 0, -1,
              NoOrder)
    \/ Find("c1")
    \/ Count("c1")
    \/ Load("c1")
    \/ PropsGet("c1")
    \/ PropsSet("c1")
    \/ ExecRows("c1")
    \/ ExecIndex("c1")

SpecIncrement == InitIncrement /\ [][NextIncrement]_vars

\* C37: after an Update that applies Increment with delta d to a column of
\* a secondary index, the entry of the entity in that index is built from
\* the value now stored in the row (old value + d), and no entry for
\* another value of the column remains for it.
C37_IncrementIndexesStoredValue ==
    [][Completes("c1", "update")
       => \A id \in Elems(op["c1"].ids) \cap DOMAIN rows'["Ints"] :
             EntriesFor(zindex'["Ints"][1], id)
               = {entry(<<"score">>, id,
                        [p \in {"score"} |->
                            prepareValue(StoredValue(rows'["Ints"], id, "score")).val])}]_vars

(***************************************************************************)
(* Update through an index that holds the entry of a row that is gone: the *)
(* table Users holds g1 {name: "a"}, whose expiry is set, and g2           *)
(* {name: "B"}.  Rows expire only while no operation is in progress, so    *)
(* the rows an Update finds when it starts are the rows its change set     *)
(* meets.  The process holds the property lists memoized by the Puts, or   *)
(* has started since and holds none.                                       *)
(***************************************************************************)
InitStale ==
    \E u \in {StoredBy("Users", <<Ent(<<>>, [name |-> va], 1),
                                  Ent(<<>>, [name |-> vB], 0)>>,
                       <<Uid(1), Uid(2)>>, EmptyMap)} :
       /\ tables = [t \in {"Users"} |-> UsersDesc]
       /\ rows = [t \in {"Users"} |-> u.rows]
       /\ zprimary = [t \in {"Users"} |-> u.zprimary]
       /\ zindex = [t \in {"Users"} |-> u.zindex]
       /\ propCache \in {u.cache, EmptyMap}
       /\ pc = [c \in {"c1"} |-> "idle"]
       /\ op = [c \in {"c1"} |-> NoOp]
       /\ resp = [c \in {"c1"} |-> NoResp]
       /\ nextUid = 2
       /\ nops = 0

NextStale ==
    \/ \E f \in NameFilters \cup {AllFilter}, chs \in NameChanges :
          Update("c1", "Users", f, chs)
    \/ \E f \in NameFilters : Get("c1", "Users", f, 0, -1, NoOrder)
    \/ Repair("c1")
    \/ Find("c1")
    \/ Count("c1")
    \/ Load("c1")
    \/ PropsGet("c1")
    \/ PropsSet("c1")
    \/ ExecRows("c1")
    \/ ExecIndex("c1")
    \/ /\ AllIdle
       /\ \E id \in DOMAIN rows["Users"] : ExpireRow("Users", id)

SpecStale == InitStale /\ [][NextStale]_vars

\* C38: Update never creates a row: after any Update every row key of the
\* table belongs to an entity that existed before the Update, also when the
\* index that resolves the filters holds an entry whose row has expired.
C38_UpdateCreatesNoRow ==
    [][pc["c1"] = "rows" /\ op["c1"].kind = "update"
       => DOMAIN rows'["Users"] \subseteq DOMAIN rows["Users"]]_vars

(***************************************************************************)
(* The connection pool.  op[Pool].out is the number of connections that    *)
(* were taken with pool.Get and not yet closed.  A client reads the table  *)
(* Users (table.Get: getIds, the read repair of the primary index,         *)
(* table.load) and asks for its statistics; the entity scanner and the     *)
(* table repair run beside it.  The row of g2 has expired and its index    *)
(* entries are left; the process holds the property lists memoized by the  *)
(* Puts, or has started since and holds none.  The pool has no MaxActive;  *)
(* the model stops taking connections that are never closed at             *)
(* MaxBorrowed.                                                            *)
(***************************************************************************)
MaxBorrowed == 3

Pool == "pool"

\* the operation of a process of the pool specification: the fields of the
\* reads of table.Get, of the entity scanner (key, id, ents, changes,
\* indexable, results) and of the table repair (index, raw)
PoolOp ==
    [ids |-> <<>>, total |-> 0, repairs |-> <<>>, keys |-> <<>>, exists |-> <<>>,
     lex |-> <<>>, loaded |-> <<>>, key |-> <<>>, id |-> <<>>, ents |-> <<>>,
     changes |-> <<>>, indexable |-> <<>>, results |-> <<>>,
     index |-> 0, raw |-> <<>>]

InitPool ==
    \E u \in {StoredBy("Users", <<Ent(<<>>, [name |-> va], 0),
                                  Ent(<<>>, [name |-> vB], 1)>>,
                       <<Uid(1), Uid(2)>>, EmptyMap)} :
       /\ tables = [t \in {"Users"} |-> UsersDesc]
       /\ rows = [t \in {"Users"} |-> RemoveKey(u.rows, Uid(2))]
       /\ zprimary = [t \in {"Users"} |-> u.zprimary]
       /\ zindex = [t \in {"Users"} |-> u.zindex]
       /\ propCache \in {u.cache, EmptyMap}
       /\ pc = [c \in {"c1", Scanner, Repairer} |-> "idle"]
       /\ op = [c \in {"c1", Scanner, Repairer, Pool} |->
                  IF c = Pool THEN [out |-> 0] ELSE PoolOp]
       /\ resp = [c \in {"c1"} |-> NoResp]
       /\ nextUid = 2
       /\ nops = 0

\* the operation of process c becomes o while taken connections are taken
\* from the pool and closed of them are closed
Pooled(c, o, taken, closed) ==
    op' = [op EXCEPT ![c] = o, ![Pool].out = @ + taken - closed]

\* the next command of the batch of basePrimaryIndex.find: the first takes
\* the connection of the batch.  The deferred Abort closes it when find
\* returns: after the last command, the ZCARD, when no id is dangling, and
\* after removeEntries when some are
findPooled(c, o) ==
    \E taken \in {IF Len(o.exists) = 0 THEN 1 ELSE 0} :
       IF Len(o.exists) < Len(o.keys)
       THEN /\ Pooled(c, [o EXCEPT !.exists =
                              Append(@, EXISTS(rows["Users"],
                                               o.keys[Len(o.exists) + 1]))],
                      taken, 0)
            /\ pc' = [pc EXCEPT ![c] = "find"]
       ELSE \E r \in {findReplies(o.keys, o.exists, ZCARD(zprimary["Users"]))} :
               /\ Pooled(c, [o EXCEPT !.ids = r.ids, !.total = r.total,
                                      !.repairs = r.repairs,
                                      !.keys = <<>>, !.exists = <<>>],
                         taken, IF Len(r.repairs) > 0 THEN 0 ELSE 1)
               /\ pc' = [pc EXCEPT ![c] = IF Len(r.repairs) > 0 THEN "repair"
                                          ELSE "load"]

\* table.Get up to the first command of table.getIds: the transaction of
\* basePrimaryIndex.scan, the first command of the batch of
\* basePrimaryIndex.find, or the range command of the batch of
\* CompoundIndex.Find, each on a connection of its own
GetIdsPooled(c, filters) ==
    /\ pc[c] = "idle"
    /\ nops < MaxOps
    /\ nops' = nops + 1
    /\ \E desc \in {tables["Users"]} :
          IF PrimaryMatches(desc, filters)
          THEN \E f \in {PrimaryFind(desc, filters)} :
                  IF f.err
                  THEN /\ resp' = [resp EXCEPT ![c] = ErrResp("get")]
                       /\ UNCHANGED <<pc, op>>
                  ELSE IF f.scan
                  THEN /\ Pooled(c, [op[c] EXCEPT !.keys =
                                        primaryScan(zprimary["Users"], 0, -1, NoOrder)],
                                 1, 1)
                       /\ pc' = [pc EXCEPT ![c] = "find"]
                       /\ UNCHANGED resp
                  ELSE findPooled(c, [op[c] EXCEPT !.keys = f.ids]) /\ UNCHANGED resp
          ELSE \E i \in {selectIndex(desc, filters, NoOrder)} :
                  IF i = 0
                  THEN /\ resp' = [resp EXCEPT ![c] = NoIndexResp("get")]
                       /\ UNCHANGED <<pc, op>>
                  ELSE \E q \in {CompoundFindCommands(desc.indexes[i], filters, 0, -1,
                                                      NoOrder)} :
                          IF q.err
                          THEN /\ resp' = [resp EXCEPT ![c] = ErrResp("get")]
                               /\ UNCHANGED <<pc, op>>
                          ELSE \E r \in {CompoundFindRange(zindex["Users"][i], q)} :
                                  IF r.err
                                  THEN /\ resp' = [resp EXCEPT ![c] = ErrResp("get")]
                                       /\ Pooled(c, op[c], 1, 1)
                                       /\ UNCHANGED pc
                                  ELSE /\ Pooled(c, [op[c] EXCEPT
                                                        !.ids = CompoundFindIds(r.val),
                                                        !.lex = <<i, q.arg1, q.arg2>>],
                                                 1, 0)
                                       /\ pc' = [pc EXCEPT ![c] = "count"]
                                       /\ UNCHANGED resp
    /\ UNCHANGED <<tables, rows, zprimary, zindex, propCache, nextUid>>

\* the next command of the batch of basePrimaryIndex.find
FindPooled(c) ==
    /\ pc[c] = "find"
    /\ findPooled(c, op[c])
    /\ UNCHANGED <<tables, rows, zprimary, zindex, propCache, resp, nextUid, nops>>

\* the ZLEXCOUNT of the batch of CompoundIndex.Find and the deferred Abort
CountPooled(c) ==
    /\ pc[c] = "count"
    /\ \E n \in {ZLEXCOUNT(zindex["Users"][op[c].lex[1]], op[c].lex[2],
                            op[c].lex[3])} :
          /\ Pooled(c, [op[c] EXCEPT !.lex = <<>>,
                                     !.total = IF n.err THEN 0 ELSE n.val,
                                     !.ids = IF n.err THEN <<>> ELSE @], 0, 1)
          /\ pc' = [pc EXCEPT ![c] = IF n.err THEN "idle" ELSE "load"]
          /\ resp' = [resp EXCEPT ![c] = IF n.err THEN ErrResp("get") ELSE @]
    /\ UNCHANGED <<tables, rows, zprimary, zindex, propCache, nextUid, nops>>

\* basePrimaryIndex.removeEntries: conn := pool.Get(), ZREM, return; then
\* find returns and its deferred Abort closes the connection of the batch
removeEntries(c) ==
    /\ pc[c] = "repair"
    /\ op[Pool].out < MaxBorrowed
    /\ zprimary' = [zprimary EXCEPT !["Users"] = @ \ Elems(op[c].repairs)]
    /\ Pooled(c, [op[c] EXCEPT !.repairs = <<>>], 1, 1)
    /\ pc' = [pc EXCEPT ![c] = "load"]
    /\ UNCHANGED <<tables, rows, zindex, propCache, resp, nextUid, nops>>

\* table.load: conn := pool.Get(); defer conn.Close(); the next command of
\* its batch and, after the last, the entities (no response when readEntity
\* panics; the deferred Close runs)
loadPooled(c) ==
    /\ pc[c] = "load"
    /\ \E n \in {Len(op[c].loaded)} :
       \E got \in {IF Len(op[c].ids) = 0 THEN <<>>
                    ELSE Append(op[c].loaded,
                                loadOne(rows["Users"], op[c].ids[n + 1], <<>>))} :
          IF n + 1 < Len(op[c].ids)
          THEN /\ Pooled(c, [op[c] EXCEPT !.loaded = got],
                         IF n = 0 THEN 1 ELSE 0, 0)
               /\ UNCHANGED <<pc, resp>>
          ELSE \E es \in {Flatten(got)} :
                  /\ resp' = [resp EXCEPT ![c] =
                                IF Panicked(es) THEN ConnectionClosed
                                ELSE [Resp("get", FALSE, [i \in DOMAIN es |-> es[i].Id],
                                           0, op[c].total, 0) EXCEPT !.entities = es]]
                  /\ Pooled(c, PoolOp, IF n = 0 THEN 1 ELSE 0, 1)
                  /\ pc' = [pc EXCEPT ![c] = "idle"]
    /\ UNCHANGED <<tables, rows, zprimary, zindex, propCache, nextUid, nops>>

\* table.Stats: conn := pool.Get() and no Close on any return
Stats(c) ==
    /\ pc[c] = "idle"
    /\ nops < MaxOps
    /\ op[Pool].out < MaxBorrowed
    /\ nops' = nops + 1
    /\ Pooled(c, op[c], 1, 0)
    /\ UNCHANGED <<tables, rows, zprimary, zindex, propCache, pc, resp, nextUid>>

\* an iteration of Driver.repairEntities begins: conn := pool.Get(), which
\* is never closed, and RANDOMKEY, whose nil reply on an empty database is
\* an error that ends the iteration
repairEntities(s) ==
    /\ pc[s] = "idle"
    /\ op[Pool].out < MaxBorrowed
    /\ \E keys \in {RedisKeys(rows, zprimary, zindex)} :
          IF keys = {}
          THEN Pooled(s, op[s], 1, 0) /\ UNCHANGED pc
          ELSE \E key \in keys :
               \E m \in {extractEntityId(key)} :
                  IF m.err \/ m.id = <<>>
                  THEN Pooled(s, op[s], 1, 0) /\ UNCHANGED pc
                  ELSE IF \A t \in DOMAIN tables :
                             TableName(t) # m.schem \o <<46>> \o m.table
                  THEN /\ Pooled(s, [op[s] EXCEPT !.key = key], 1, 0)
                       /\ pc' = [pc EXCEPT ![s] = "del"]
                  ELSE /\ Pooled(s, [op[s] EXCEPT !.key = key, !.id = m.id], 1, 0)
                       /\ pc' = [pc EXCEPT ![s] = "entity"]
    /\ UNCHANGED <<tables, rows, zprimary, zindex, propCache, resp, nextUid, nops>>

\* reindexEntity: table.load takes and closes a connection; with an entity
\* table.reindex builds its change set; a panic of the load ends the process
loadEntityPooled(s) ==
    /\ pc[s] = "entity"
    /\ \E ents \in {load(rows["Users"], <<op[s].id>>, <<>>)} :
          IF Panicked(ents)
          THEN Crash /\ Pooled(s, op[s], 1, 1)
          ELSE /\ Pooled(s, IF Len(ents) = 0 THEN PoolOp
                            ELSE [op[s] EXCEPT
                                    !.ents = ents,
                                    !.changes =
                                        <<newEntityChange(ents[1].Id, "reindex",
                                                          reindexChanges(ents[1]))>>],
                         1, 1)
               /\ pc' = [pc EXCEPT ![s] = IF Len(ents) = 0 THEN "idle" ELSE "props"]
    /\ UNCHANGED <<tables, rows, zprimary, zindex, propCache, resp, nextUid, nops>>

\* changeSet.Execute of the reindex takes the connection of its
\* transaction; changeSet.indexableProperties for its change up to the end
\* of propCache.get
propsGetPooled(s) ==
    /\ pc[s] = "props"
    /\ \E rc \in {op[s].changes[1]} :
       \E h \in {hash(rc.changedProperties)} :
          IF h \in DOMAIN propCache
          THEN /\ Pooled(s, [op[s] EXCEPT !.indexable = <<propCache[h]>>], 1, 0)
               /\ pc' = [pc EXCEPT ![s] = "rows"]
          ELSE /\ Pooled(s, [op[s] EXCEPT !.indexable =
                                 <<indexableLoop(tables["Users"], rc,
                                                 PrimaryProperties(tables["Users"]),
                                                 1, 1)>>], 1, 0)
               /\ pc' = [pc EXCEPT ![s] = "cache"]
    /\ UNCHANGED <<tables, rows, zprimary, zindex, propCache, resp, nextUid, nops>>

\* propCache.set of the list computed for the change of the reindex
propsSetPooled(s) ==
    /\ pc[s] = "cache"
    /\ \E h \in {hash(op[s].changes[1].changedProperties)} :
          propCache' = [k \in DOMAIN propCache \cup {h} |->
                           IF k = h THEN op[s].indexable[1] ELSE propCache[k]]
    /\ pc' = [pc EXCEPT ![s] = "rows"]
    /\ UNCHANGED <<tables, rows, zprimary, zindex, op, resp, nextUid, nops>>

\* changeSet.Execute of the reindex executes the row commands
reindexRowsPooled(s) ==
    /\ pc[s] = "rows"
    /\ \E r \in {ExecuteRows(rows["Users"], op[s].indexable, op[s].changes)} :
           /\ rows' = [rows EXCEPT !["Users"] = r.rows]
           /\ Pooled(s, [op[s] EXCEPT !.results = r.results, !.ents = <<>>,
                                      !.changes = <<>>, !.indexable = <<>>], 0, 0)
    /\ pc' = [pc EXCEPT ![s] = "reindex"]
    /\ UNCHANGED <<tables, zprimary, zindex, propCache, resp, nextUid, nops>>

\* changeSet.indexChanges takes and closes the connection of its
\* transaction; changeSet.Execute returns and its deferred Abort closes the
\* connection of the row transaction
reindexIndexPooled(s) ==
    /\ pc[s] = "reindex"
    /\ \E ic \in {indexChanges(tables["Users"], zprimary["Users"], zindex["Users"],
                               op[s].results)} :
          /\ zprimary' = [zprimary EXCEPT !["Users"] = ic.zprimary]
          /\ zindex' = [zindex EXCEPT !["Users"] = ic.zindex]
    /\ Pooled(s, PoolOp, 1, 2)
    /\ pc' = [pc EXCEPT ![s] = "idle"]
    /\ UNCHANGED <<tables, rows, propCache, resp, nextUid, nops>>

\* table.repair on entry raw of the primary (index 0) or of secondary
\* index i: table.load of its id takes and closes a connection; a panic of
\* the load ends the process
repairLoadPooled(r, i, raw) ==
    /\ pc[r] = "idle"
    /\ raw \in (IF i = 0 THEN zprimary["Users"] ELSE zindex["Users"][i])
    /\ \E id \in {IF i = 0 THEN raw ELSE extractId(raw)} :
          /\ i = 0 \/ id # <<>>
          /\ \E ents \in {load(rows["Users"], <<id>>, <<>>)} :
                IF Panicked(ents)
                THEN Crash /\ Pooled(r, op[r], 1, 1)
                ELSE IF ents = <<>>
                THEN /\ Pooled(r, [op[r] EXCEPT !.index = i, !.raw = raw], 1, 1)
                     /\ pc' = [pc EXCEPT ![r] = "unindex"]
                ELSE Pooled(r, op[r], 1, 1) /\ UNCHANGED pc
    /\ UNCHANGED <<tables, rows, zprimary, zindex, propCache, resp, nextUid, nops>>

\* basePrimaryIndex.Unindex of an id whose row is missing: conn :=
\* pool.Get(), ZREM, return
Unindex(r) ==
    /\ pc[r] = "unindex"
    /\ op[r].index = 0
    /\ op[Pool].out < MaxBorrowed
    /\ zprimary' = [zprimary EXCEPT !["Users"] = @ \ {op[r].raw}]
    /\ Pooled(r, PoolOp, 1, 0)
    /\ pc' = [pc EXCEPT ![r] = "idle"]
    /\ UNCHANGED <<tables, rows, zindex, propCache, resp, nextUid, nops>>

\* CompoundIndex.RemoveEntry of a raw entry whose row is missing: conn :=
\* pool.Get(), ZREM, return
RemoveEntry(r) ==
    /\ pc[r] = "unindex"
    /\ op[r].index > 0
    /\ op[Pool].out < MaxBorrowed
    /\ zindex' = [zindex EXCEPT !["Users"][op[r].index] = @ \ {op[r].raw}]
    /\ Pooled(r, PoolOp, 1, 0)
    /\ pc' = [pc EXCEPT ![r] = "idle"]
    /\ UNCHANGED <<tables, rows, zprimary, propCache, resp, nextUid, nops>>

NextPool ==
    \/ \E f \in NameFilters \cup {[id |-> Filter(IdKey, "IN", <<Uid(1), Uid(2)>>)],
                                   [id |-> Filter(IdKey, ">", <<Uid(1)>>)],
                                   [city |-> Filter("city", "=", <<va>>)],
                                   [name |-> Filter("name", "IN", <<va, vB>>)]} :
          GetIdsPooled("c1", f)
    \/ FindPooled("c1")
    \/ CountPooled("c1")
    \/ removeEntries("c1")
    \/ loadPooled("c1")
    \/ Stats("c1")
    \/ repairEntities(Scanner)
    \/ loadEntityPooled(Scanner)
    \/ propsGetPooled(Scanner)
    \/ propsSetPooled(Scanner)
    \/ reindexRowsPooled(Scanner)
    \/ reindexIndexPooled(Scanner)
    \/ \E id \in zprimary["Users"] : repairLoadPooled(Repairer, 0, id)
    \/ \E i \in DOMAIN zindex["Users"] : \E e \in zindex["Users"][i] :
          repairLoadPooled(Repairer, i, e)
    \/ Unindex(Repairer)
    \/ RemoveEntry(Repairer)

SpecPool == InitPool /\ [][NextPool]_vars

\* C39: every connection a driver operation takes from the pool is
\* returned when the operation ends, on success and on error, so the number
\* of outstanding connections never exceeds the number of operations in
\* flight.
C39_ConnectionsReturned ==
    op[Pool].out <= Cardinality({c \in DOMAIN pc : pc[c] # "idle"})

(***************************************************************************)
(* Put batches with an entity whose id cannot be generated: the table Apps *)
(* with its compound primary on [pkg].                                     *)
(***************************************************************************)
\* entities with pkg, without pkg, and with a nil pkg
IdEnts ==
    {Ent(<<>>, [pkg |-> va, city |-> va], 0), Ent(<<>>, [pkg |-> vB], 0),
     Ent(<<>>, [city |-> va], 0), Ent(<<>>, [pkg |-> Nil, city |-> vB], 0)}

IdBatches == {<<e>> : e \in IdEnts} \cup {<<e1, e2>> : e1 \in IdEnts, e2 \in IdEnts}

\* the id of an entity of the batch cannot be generated
FailsIds(ents) == \E i \in DOMAIN ents : GenerateId(AppsDesc, ents[i], <<>>).err

InitIds == InitWith([t \in {"Apps"} |-> AppsDesc], {"c1"})

NextIds ==
    \/ \E ents \in IdBatches : Put("c1", "Apps", ents)
    \/ PropsGet("c1")
    \/ PropsSet("c1")
    \/ ExecRows("c1")
    \/ ExecIndex("c1")

SpecIds == InitIds /\ [][NextIds]_vars

\* C40: if the id generation fails for any entity of a Put batch, Put
\* returns an error and no row and no index entry is written for any entity
\* of the batch, the entities before the failing one included.
C40_FailedIdWritesNothing ==
    [][\A ents \in {b \in IdBatches : FailsIds(b)} :
          Put("c1", "Apps", ents)
          => /\ resp'["c1"].err
             /\ pc'["c1"] = "idle"
             /\ rows' = rows
             /\ zprimary' = zprimary
             /\ zindex' = zindex]_vars

\* a Put has failed while the table holds the row and the index entries of
\* an earlier Put
C40_Witness ==
    /\ pc["c1"] = "idle"
    /\ resp["c1"].kind = "put"
    /\ resp["c1"].err
    /\ rows["Apps"] # EmptyMap
    /\ zprimary["Apps"] # {}

====
